---- MODULE Spec2Model ----
(***************************************************************************)
(* Attendance tracking system: the ENTRY/EXIT state machine, the           *)
(* duplicate-suppression window and the session/token lifecycle, as        *)
(* state machines over the durable store (MongoDB collections) and the     *)
(* cache (Redis keys with a TTL).                                          *)
(*                                                                         *)
(* Time is the wall clock in milliseconds (Date.now()).  A Redis key       *)
(* written with a TTL carries the instant it expires; a read at or after   *)
(* that instant misses.                                                    *)
(***************************************************************************)
EXTENDS Integers, Sequences, FiniteSets, TLC

VARIABLES
  clock,        \* Date.now(), in milliseconds
  ticks,        \* how often the clock has advanced (bounds the exploration)
  attendance,   \* the Attendance collection, in insertion order
  images,       \* files written to uploads/attendance
  recent,       \* Redis recent_attendance:<userId> -> marker
  userActive,   \* User.isActive per user
  faceDescriptors, \* cached descriptor (its length) of each cached userId
  result,       \* what the last handler returned
  reqs,         \* in-flight check-in requests (interleaved specifications)
  sessions,     \* the Session collection
  sessionCache, \* Redis session:<sessionId> -> projection
  tokens,       \* tokens handed to clients
  nextSid,      \* source of fresh session identifiers
  loggedOut,    \* session identifiers whose logout returned true
  procs         \* in-flight refreshToken calls (interleaved specifications)

vars == <<clock, ticks, attendance, images, recent, userActive,
          faceDescriptors, result,
          reqs, sessions, sessionCache, tokens, nextSid, loggedOut, procs>>

attVars  == <<attendance, images, recent>>
authVars == <<sessions, sessionCache, tokens, nextSid, loggedOut, procs>>

-----------------------------------------------------------------------------
(* Bounds of the exploration *)

MaxTicks == 4
MaxEvents == 3

Users == {"u1", "u2"}
Types == {"ENTRY", "EXIT"}

-----------------------------------------------------------------------------
(* Time *)

Second == 1000
Minute == 60 * Second
Hour == 60 * Minute
Day == 24 * Hour

\* today.setHours(0, 0, 0, 0): local midnight of the day of t
StartOfDay(t) == (t \div Day) * Day

\* tomorrow.setDate(tomorrow.getDate() + 1)
NextMidnight(t) == StartOfDay(t) + Day

DayOf(t) == t \div Day

\* Math.ceil(a / b) for a >= 0, b > 0
Ceil(a, b) == (a + b - 1) \div b

-----------------------------------------------------------------------------
(* The recent-attendance marker cache of attendanceService.ts *)

NoMarker == [lastType |-> "none", timestamp |-> 0, expiresAt |-> 0]

\* default ttl of setRecentAttendance, in seconds
RECENT_TTL == 3600

\* CacheService.getRecentAttendance: null when the key is missing or expired
getRecentAttendance(userId) ==
  IF recent[userId].lastType # "none" /\ clock < recent[userId].expiresAt
  THEN recent[userId]
  ELSE NoMarker

\* CacheService.setRecentAttendance: redis.set(key, value, ttl) -> setEx
setRecentAttendance(userId, lastType, timestamp) ==
  [recent EXCEPT ![userId] =
     [lastType |-> lastType, timestamp |-> timestamp,
      expiresAt |-> clock + RECENT_TTL * Second]]

-----------------------------------------------------------------------------
(* Durable attendance history *)

EventsOf(userId) == SelectSeq(attendance, LAMBDA e : e.userId = userId)

\* Attendance.findOne({ userId }).sort({ timestamp: -1 }).limit(1): the
\* documents of the user with the greatest timestamp (several on a tie:
\* the store may return any of them)
LastAttendance(userId) ==
  {i \in 1..Len(attendance) :
     /\ attendance[i].userId = userId
     /\ \A j \in 1..Len(attendance) :
          attendance[j].userId = userId =>
            attendance[j].timestamp <= attendance[i].timestamp}

Opposite(type) == IF type = "ENTRY" THEN "EXIT" ELSE "ENTRY"

\* mutant: the last event decides whatever its day
determineAttendanceTypeAnyDay(userId, last) ==
  IF getRecentAttendance(userId) # NoMarker
  THEN Opposite(getRecentAttendance(userId).lastType)
  ELSE IF last = 0
  THEN "ENTRY"
  ELSE Opposite(attendance[last].type)

\* AttendanceService.determineAttendanceType, given the document that
\* findOne returned (0: none)
determineAttendanceType(userId, last) ==
  IF getRecentAttendance(userId) # NoMarker
  THEN Opposite(getRecentAttendance(userId).lastType)
  ELSE IF last = 0
  THEN "ENTRY"
  ELSE IF /\ attendance[last].timestamp >= StartOfDay(clock)
          /\ attendance[last].timestamp < NextMidnight(clock)
  THEN Opposite(attendance[last].type)
  ELSE "ENTRY"

\* the documents findOne may return, 0 when the user has none
LastChoices(userId) ==
  IF LastAttendance(userId) = {} THEN {0} ELSE LastAttendance(userId)

-----------------------------------------------------------------------------
(* Results *)

\* a signed token: its payload and its expiry (exp, in seconds)
NoToken == [kind |-> "none", userId |-> "none", sessionId |-> 0, exp |-> 0]

NoResult == [op |-> "none", ok |-> FALSE, msg |-> "none", user |-> "none",
             type |-> "none", wait |-> 0, token |-> NoToken,
             oldToken |-> NoToken, refresh |-> NoToken, confidence |-> 0,
             probe |-> <<>>]

AttResult(op, ok, msg, user, type, wait) ==
  [NoResult EXCEPT !.op = op, !.ok = ok, !.msg = msg, !.user = user,
                   !.type = type, !.wait = wait]

AuthResult(op, ok, user, token, oldToken, refresh) ==
  [NoResult EXCEPT !.op = op, !.ok = ok, !.user = user, !.token = token,
                   !.oldToken = oldToken, !.refresh = refresh]

-----------------------------------------------------------------------------
(* attendanceService.ts: processAttendance, one request at a time *)

\* the file name attendance/<userId>_<type>_<timestamp>.jpg that
\* saveAttendanceImage returns
imageUrlOf(userId, type) ==
  [userId |-> userId, type |-> type, timestamp |-> clock]

\* saveAttendanceImage returned "": the file could not be written
EmptyUrl == [userId |-> "", type |-> "", timestamp |-> 0]

\* AttendanceService.saveAttendanceImage: writes the file
\* <userId>_<type>_<timestamp>.jpg
saveAttendanceImage(userId, type) ==
  images \cup {[userId |-> userId, type |-> type, timestamp |-> clock]}

\* the request's face was matched to `userId` ("none": no face, empty
\* gallery or no match above the threshold)
processAttendance(userId) ==
  /\ Len(attendance) < MaxEvents
  /\ IF userId = "none"
     THEN /\ result' = AttResult("processAttendance", FALSE, "not_recognized",
                                 "none", "none", 0)
          /\ UNCHANGED attVars
     ELSE IF ~userActive[userId]
     THEN /\ result' = AttResult("processAttendance", FALSE, "not_active",
                                 userId, "none", 0)
          /\ UNCHANGED attVars
     ELSE \E last \in LastChoices(userId) :
            LET attendanceType == determineAttendanceType(userId, last) IN
            /\ attendance' = Append(attendance,
                 [userId |-> userId, type |-> attendanceType,
                  timestamp |-> clock,
                  imageUrl |-> imageUrlOf(userId, attendanceType)])
            /\ images' = saveAttendanceImage(userId, attendanceType)
            /\ recent' = setRecentAttendance(userId, attendanceType, clock)
            /\ result' = AttResult("processAttendance", TRUE, "recorded",
                                   userId, attendanceType, 0)
  /\ UNCHANGED <<clock, ticks, userActive, faceDescriptors, reqs>>
  /\ UNCHANGED authVars

\* the wall clock advances
AttSteps == {20 * Minute, Hour, Day}

TickAtt ==
  /\ ticks < MaxTicks
  /\ \E d \in AttSteps : clock' = clock + d
  /\ ticks' = ticks + 1
  /\ UNCHANGED <<attendance, images, recent, userActive, faceDescriptors,
                 result, reqs>>
  /\ UNCHANGED authVars

-----------------------------------------------------------------------------
(* The service of part_001 (processAttendanceCheck) with the cache of       *)
(* part_002, one request at a time                                         *)

\* MIN_TIME_BETWEEN_ENTRIES = 5 * 60 * 1000
MIN_TIME_BETWEEN_ENTRIES == 5 * 60 * 1000

\* the TTL cacheRecentAttendance gives the marker, in seconds
CHECK_TTL == 300

\* mutant: the marker is given a TTL shorter than the suppression window
cacheRecentAttendanceShortTtl(userId, type, timestamp) ==
  [recent EXCEPT ![userId] =
     [lastType |-> type, timestamp |-> timestamp,
      expiresAt |-> clock + 60 * Second]]

\* CacheService.cacheRecentAttendance: setex(key, 300, {lastType, timestamp})
cacheRecentAttendance(userId, type, timestamp) ==
  [recent EXCEPT ![userId] =
     [lastType |-> type, timestamp |-> timestamp,
      expiresAt |-> clock + CHECK_TTL * Second]]

\* the private determineAttendanceType of this service is not part of the
\* listing; it follows the same rule (marker first, then today's last event)
determineAttendanceTypeOfCheck(userId, last) ==
  determineAttendanceType(userId, last)

\* mutant: the comparison with the interval is inclusive
tooSoonInclusive(marker, now) ==
  /\ marker # NoMarker
  /\ now - marker.timestamp <= MIN_TIME_BETWEEN_ENTRIES

\* timeSinceLastEntry < MIN_TIME_BETWEEN_ENTRIES, for the marker read
tooSoon(marker, now) ==
  /\ marker # NoMarker
  /\ now - marker.timestamp < MIN_TIME_BETWEEN_ENTRIES

\* Math.ceil((MIN_TIME_BETWEEN_ENTRIES - timeSinceLastEntry) / 1000)
waitSeconds(marker, now) ==
  Ceil(MIN_TIME_BETWEEN_ENTRIES - (now - marker.timestamp), 1000)

\* mutant: a rejected request restarts the suppression window
rejectTooSoonSliding(userId, marker, now) ==
  /\ result' = AttResult("processAttendanceCheck", FALSE, "too_soon", userId,
                         "none", waitSeconds(marker, now))
  /\ recent' = [recent EXCEPT ![userId] =
                  [lastType |-> marker.lastType, timestamp |-> now,
                   expiresAt |-> now + CHECK_TTL * Second]]
  /\ UNCHANGED <<attendance, images>>

\* the early return of a request that came too soon
rejectTooSoon(userId, marker, now) ==
  /\ result' = AttResult("processAttendanceCheck", FALSE, "too_soon", userId,
                         "none", waitSeconds(marker, now))
  /\ UNCHANGED attVars

\* the request's face was matched to `userId` ("none": no face, low
\* confidence or no match)
processAttendanceCheck(userId) ==
  /\ Len(attendance) < MaxEvents
  /\ IF userId = "none"
     THEN /\ result' = AttResult("processAttendanceCheck", FALSE,
                                 "not_recognized", "none", "none", 0)
          /\ UNCHANGED attVars
     ELSE IF tooSoon(getRecentAttendance(userId), clock)
     THEN rejectTooSoon(userId, getRecentAttendance(userId), clock)
     ELSE \E last \in LastChoices(userId) :
            LET attendanceType == determineAttendanceTypeOfCheck(userId, last)
            IN
            /\ attendance' = Append(attendance,
                 [userId |-> userId, type |-> attendanceType,
                  timestamp |-> clock])
            /\ UNCHANGED images
            /\ recent' = cacheRecentAttendance(userId, attendanceType, clock)
            /\ result' = AttResult("processAttendanceCheck", TRUE, "recorded",
                                   userId, attendanceType, 0)
  /\ UNCHANGED <<clock, ticks, userActive, faceDescriptors, reqs>>
  /\ UNCHANGED authVars

CheckSteps == {1500, 4 * Minute, 5 * Minute}

TickCheck ==
  /\ ticks < MaxTicks
  /\ \E d \in CheckSteps : clock' = clock + d
  /\ ticks' = ticks + 1
  /\ UNCHANGED <<attendance, images, recent, userActive, faceDescriptors,
                 result, reqs>>
  /\ UNCHANGED authVars

-----------------------------------------------------------------------------
(* processAttendanceCheck, requests interleaved at their awaits *)

MaxReqs == 2
MaxRaceTicks == 2

Reqs == 1..MaxReqs

IdleReq == [pc |-> "idle", user |-> "none", now |-> 0, seen |-> NoMarker,
            type |-> "none", outcome |-> "none"]

\* await findMatchingUser(descriptor) returned `userId`
RaceMatch(r, userId) ==
  /\ reqs[r].pc = "idle"
  /\ reqs' = [reqs EXCEPT ![r] = [IdleReq EXCEPT !.pc = "matched",
                                                  !.user = userId]]
  /\ UNCHANGED <<clock, ticks, attendance, images, recent, userActive,
                 faceDescriptors, result>>
  /\ UNCHANGED authVars

\* await getRecentAttendance; now = new Date(); the duplicate check
RaceCheck(r) ==
  /\ reqs[r].pc = "matched"
  /\ LET marker == getRecentAttendance(reqs[r].user) IN
     reqs' = [reqs EXCEPT ![r] =
       IF tooSoon(marker, clock)
       THEN [@ EXCEPT !.pc = "done", !.now = clock, !.seen = marker,
                      !.outcome = "too_soon"]
       ELSE [@ EXCEPT !.pc = "determine", !.now = clock, !.seen = marker]]
  /\ UNCHANGED <<clock, ticks, attendance, images, recent, userActive,
                 faceDescriptors, result>>
  /\ UNCHANGED authVars

\* await determineAttendanceType
RaceDetermine(r) ==
  /\ reqs[r].pc = "determine"
  /\ \E last \in LastChoices(reqs[r].user) :
       reqs' = [reqs EXCEPT ![r] =
         [@ EXCEPT !.pc = "save",
                   !.type = determineAttendanceTypeOfCheck(reqs[r].user, last)]]
  /\ UNCHANGED <<clock, ticks, attendance, images, recent, userActive,
                 faceDescriptors, result>>
  /\ UNCHANGED authVars

\* await attendance.save()
RaceSave(r) ==
  /\ reqs[r].pc = "save"
  /\ attendance' = Append(attendance,
       [userId |-> reqs[r].user, type |-> reqs[r].type,
        timestamp |-> reqs[r].now])
  /\ reqs' = [reqs EXCEPT ![r].pc = "cache"]
  /\ UNCHANGED <<clock, ticks, images, recent, userActive, faceDescriptors,
                 result>>
  /\ UNCHANGED authVars

\* await cacheRecentAttendance; return success
RaceCache(r) ==
  /\ reqs[r].pc = "cache"
  /\ recent' = cacheRecentAttendance(reqs[r].user, reqs[r].type, reqs[r].now)
  /\ reqs' = [reqs EXCEPT ![r].pc = "done", ![r].outcome = "recorded"]
  /\ UNCHANGED <<clock, ticks, attendance, images, userActive,
                 faceDescriptors, result>>
  /\ UNCHANGED authVars

RaceSteps == {1500, 5 * Minute}

TickRace ==
  /\ ticks < MaxRaceTicks
  /\ \E d \in RaceSteps : clock' = clock + d
  /\ ticks' = ticks + 1
  /\ UNCHANGED <<attendance, images, recent, userActive, faceDescriptors,
                 result, reqs>>
  /\ UNCHANGED authVars

InitAuthIdle ==
  /\ sessions = {}
  /\ sessionCache = <<>>
  /\ tokens = {}
  /\ nextSid = 1
  /\ loggedOut = {}
  /\ procs = <<>>

InitAtt ==
  /\ clock = 23 * Hour
  /\ ticks = 0
  /\ attendance = <<>>
  /\ images = {}
  /\ recent = [u \in Users |-> NoMarker]
  /\ userActive = [u \in Users |-> TRUE]
  /\ faceDescriptors = <<>>
  /\ result = NoResult
  /\ reqs = <<>>
  /\ InitAuthIdle

NextAtt ==
  \/ \E u \in Users \cup {"none"} : processAttendance(u)
  \/ TickAtt

SpecAtt == InitAtt /\ [][NextAtt]_vars

\* findMatchingUser returns active users only
Matchable == {u \in Users : userActive[u]} \cup {"none"}

NextCheck ==
  \/ \E u \in Matchable : processAttendanceCheck(u)
  \/ TickCheck

SpecCheck == InitAtt /\ [][NextCheck]_vars

InitRace ==
  /\ clock = 23 * Hour
  /\ ticks = 0
  /\ attendance = <<>>
  /\ images = {}
  /\ recent = [u \in Users |-> NoMarker]
  /\ userActive = [u \in Users |-> TRUE]
  /\ faceDescriptors = <<>>
  /\ result = NoResult
  /\ reqs = [r \in Reqs |-> IdleReq]
  /\ InitAuthIdle

NextRace ==
  \/ \E r \in Reqs : \E u \in Users : RaceMatch(r, u)
  \/ \E r \in Reqs : RaceCheck(r)
  \/ \E r \in Reqs : RaceDetermine(r)
  \/ \E r \in Reqs : RaceSave(r)
  \/ \E r \in Reqs : RaceCache(r)
  \/ TickRace

SpecRace == InitRace /\ [][NextRace]_vars

-----------------------------------------------------------------------------
(* attendanceService.ts: processAttendance with failing stores.  A call   *)
(* is given, for each write it makes, whether the write succeeds:         *)
(* saveAttendanceImage catches its error and returns "", attendance.save  *)
(* and setRecentAttendance throw, and the catch of processAttendance      *)
(* turns whatever is thrown into the failure result.                      *)

MaxFailTicks == 1
MaxFailEvents == 2
MaxImages == 2

\* mutant: the marker is written before the durable save
markerBeforeSave(userId, type, saveOk, cacheOk) ==
  IF cacheOk THEN setRecentAttendance(userId, type, clock) ELSE recent

\* the marker cache after the request: setRecentAttendance is reached only
\* when attendance.save() returned
markerAfterSave(userId, type, saveOk, cacheOk) ==
  IF saveOk /\ cacheOk THEN setRecentAttendance(userId, type, clock)
  ELSE recent

\* AttendanceService.processAttendance: `imageOk` is fs.writeFileSync,
\* `saveOk` attendance.save(), `cacheOk` the Redis set of the marker
processAttendanceIO(userId, imageOk, saveOk, cacheOk) ==
  /\ Len(attendance) < MaxFailEvents
  /\ Cardinality(images) < MaxImages
  /\ IF userId = "none"
     THEN /\ result' = AttResult("processAttendance", FALSE, "not_recognized",
                                 "none", "none", 0)
          /\ UNCHANGED attVars
     ELSE IF ~userActive[userId]
     THEN /\ result' = AttResult("processAttendance", FALSE, "not_active",
                                 userId, "none", 0)
          /\ UNCHANGED attVars
     ELSE \E last \in LastChoices(userId) :
            LET attendanceType == determineAttendanceType(userId, last) IN
            /\ images' = IF imageOk
                         THEN saveAttendanceImage(userId, attendanceType)
                         ELSE images
            /\ attendance' =
                 IF saveOk
                 THEN Append(attendance,
                        [userId |-> userId, type |-> attendanceType,
                         timestamp |-> clock,
                         imageUrl |-> IF imageOk
                                      THEN imageUrlOf(userId, attendanceType)
                                      ELSE EmptyUrl])
                 ELSE attendance
            /\ recent' = markerAfterSave(userId, attendanceType, saveOk,
                                         cacheOk)
            /\ result' =
                 IF ~saveOk
                 THEN AttResult("processAttendance", FALSE, "save_failed",
                                userId, attendanceType, 0)
                 ELSE IF ~cacheOk
                 THEN AttResult("processAttendance", FALSE,
                                "cache_write_failed", userId, attendanceType,
                                0)
                 ELSE AttResult("processAttendance", TRUE, "recorded",
                                userId, attendanceType, 0)
  /\ UNCHANGED <<clock, ticks, userActive, faceDescriptors, reqs>>
  /\ UNCHANGED authVars

FailSteps == {20 * Minute, Hour}

TickFail ==
  /\ ticks < MaxFailTicks
  /\ \E d \in FailSteps : clock' = clock + d
  /\ ticks' = ticks + 1
  /\ UNCHANGED <<attendance, images, recent, userActive, faceDescriptors,
                 result, reqs>>
  /\ UNCHANGED authVars

NextAttFail ==
  \/ \E u \in Users \cup {"none"} : \E imageOk, saveOk, cacheOk \in BOOLEAN :
       processAttendanceIO(u, imageOk, saveOk, cacheOk)
  \/ TickFail

SpecAttFail == InitAtt /\ [][NextAttFail]_vars

-----------------------------------------------------------------------------
(* attendanceService.ts: processAttendance with the reads of               *)
(* determineAttendanceType failing: `getOk` is the Redis get of the marker, *)
(* `findOk` the Attendance.findOne of the history                          *)

\* CacheService.getRecentAttendance as determineAttendanceType sees it: its
\* catch turns a Redis error into null
recentAttendanceRead(userId, getOk) ==
  IF getOk THEN getRecentAttendance(userId) ELSE NoMarker

\* mutant: a failed read of the marker ends in the catch of
\* determineAttendanceType as well
determineAttendanceTypeReadStrict(userId, last, getOk, findOk) ==
  IF ~getOk THEN "ENTRY"
  ELSE IF getRecentAttendance(userId) # NoMarker
  THEN Opposite(getRecentAttendance(userId).lastType)
  ELSE IF ~findOk \/ last = 0
  THEN "ENTRY"
  ELSE IF /\ attendance[last].timestamp >= StartOfDay(clock)
          /\ attendance[last].timestamp < NextMidnight(clock)
  THEN Opposite(attendance[last].type)
  ELSE "ENTRY"

\* AttendanceService.determineAttendanceType with its catch: a rejected
\* findOne returns "ENTRY"
determineAttendanceTypeRead(userId, last, getOk, findOk) ==
  IF recentAttendanceRead(userId, getOk) # NoMarker
  THEN Opposite(recentAttendanceRead(userId, getOk).lastType)
  ELSE IF ~findOk
  THEN "ENTRY"
  ELSE IF last = 0
  THEN "ENTRY"
  ELSE IF /\ attendance[last].timestamp >= StartOfDay(clock)
          /\ attendance[last].timestamp < NextMidnight(clock)
  THEN Opposite(attendance[last].type)
  ELSE "ENTRY"

\* which read of determineAttendanceType was tried and failed
readsFailed(userId, getOk, findOk) ==
  IF ~getOk /\ ~findOk THEN "get_find_failed"
  ELSE IF ~getOk THEN "get_failed"
  ELSE IF ~findOk /\ getRecentAttendance(userId) = NoMarker
  THEN "find_failed"
  ELSE "none"

\* AttendanceService.processAttendance for a request matched to `userId`,
\* its writes succeeding
processAttendanceRead(userId, getOk, findOk) ==
  /\ Len(attendance) < MaxFailEvents
  /\ IF userId = "none"
     THEN /\ result' = AttResult("processAttendance", FALSE, "not_recognized",
                                 "none", "none", 0)
          /\ UNCHANGED attVars
     ELSE IF ~userActive[userId]
     THEN /\ result' = AttResult("processAttendance", FALSE, "not_active",
                                 userId, "none", 0)
          /\ UNCHANGED attVars
     ELSE \E last \in LastChoices(userId) :
            LET attendanceType ==
                  determineAttendanceTypeRead(userId, last, getOk, findOk) IN
            /\ attendance' = Append(attendance,
                 [userId |-> userId, type |-> attendanceType,
                  timestamp |-> clock,
                  imageUrl |-> imageUrlOf(userId, attendanceType)])
            /\ images' = saveAttendanceImage(userId, attendanceType)
            /\ recent' = setRecentAttendance(userId, attendanceType, clock)
            /\ result' = AttResult("processAttendance", TRUE,
                                   readsFailed(userId, getOk, findOk),
                                   userId, attendanceType, 0)
  /\ UNCHANGED <<clock, ticks, userActive, faceDescriptors, reqs>>
  /\ UNCHANGED authVars

NextAttRead ==
  \/ \E u \in Users \cup {"none"} : \E getOk, findOk \in BOOLEAN :
       processAttendanceRead(u, getOk, findOk)
  \/ TickFail

SpecAttRead == InitAtt /\ [][NextAttRead]_vars

-----------------------------------------------------------------------------
(* attendanceService.ts: the operations that touch persisted events, next *)
(* to the check-in                                                        *)

MaxRecordTicks == 2

\* cleanupOldImages(daysOld): the ages a caller may pass, small enough for
\* the clock to pass them
DaysOld == {1, 7}

\* $unset: { imageUrl: 1 }
UnsetUrl == [userId |-> "unset", type |-> "", timestamp |-> 0]

\* the sequence without its i-th element
RemoveAt(seq, i) ==
  [j \in 1..(Len(seq) - 1) |-> IF j < i THEN seq[j] ELSE seq[j + 1]]

\* AttendanceService.deleteAttendanceRecord(attendanceId), the record being
\* the i-th persisted event: findByIdAndDelete, unlink of its image,
\* removeRecentAttendance of its user
deleteAttendanceRecord(i) ==
  /\ attendance' = RemoveAt(attendance, i)
  /\ images' = images \ {attendance[i].imageUrl}
  /\ recent' = [recent EXCEPT ![attendance[i].userId] = NoMarker]
  /\ result' = AttResult("deleteAttendanceRecord", TRUE, "none",
                         attendance[i].userId, attendance[i].type, 0)
  /\ UNCHANGED <<clock, ticks, userActive, faceDescriptors, reqs>>
  /\ UNCHANGED authVars

\* Attendance.find({ timestamp < cutoffDate, imageUrl exists and # "" })
oldAttendance(daysOld) ==
  {i \in 1..Len(attendance) :
     /\ attendance[i].timestamp < clock - daysOld * Day
     /\ attendance[i].imageUrl \notin {EmptyUrl, UnsetUrl}}

\* AttendanceService.cleanupOldImages(daysOld): unlinks the images of the
\* events older than daysOld days and unsets their imageUrl
cleanupOldImages(daysOld) ==
  /\ images' =
       images \ {attendance[i].imageUrl : i \in oldAttendance(daysOld)}
  /\ attendance' =
       [i \in 1..Len(attendance) |->
          IF i \in oldAttendance(daysOld)
          THEN [attendance[i] EXCEPT !.imageUrl = UnsetUrl]
          ELSE attendance[i]]
  /\ result' = AttResult("cleanupOldImages", TRUE, "none", "none", "none", 0)
  /\ UNCHANGED <<clock, ticks, recent, userActive, faceDescriptors, reqs>>
  /\ UNCHANGED authVars

\* the clock advances by an hour, or by two days
RecordSteps == {Hour, 2 * Day}

TickRecords ==
  /\ ticks < MaxRecordTicks
  /\ \E d \in RecordSteps : clock' = clock + d
  /\ ticks' = ticks + 1
  /\ UNCHANGED <<attendance, images, recent, userActive, faceDescriptors,
                 result, reqs>>
  /\ UNCHANGED authVars

NextRecords ==
  \/ \E u \in Users : processAttendance(u)
  \/ \E i \in 1..Len(attendance) : deleteAttendanceRecord(i)
  \/ \E daysOld \in DaysOld : cleanupOldImages(daysOld)
  \/ TickRecords

SpecRecords == InitAtt /\ [][NextRecords]_vars

-----------------------------------------------------------------------------
(* routes/attendance.js: daily attendance records with a check-in and a   *)
(* check-out time, and their correction by an administrator.  Here        *)
(* `attendance` holds these records; 0 stands for a time that is not set. *)

MaxCorrectRecords == 1
MaxCorrections == 2

\* the date-times an administrator may send; 0: the field is not sent
CheckInTimes == {0, 9 * Hour}
CheckOutTimes == {0, 18 * Hour}

\* Math.round((checkOutTime - checkInTime) / 1000), of whole seconds
workDurationOf(checkInTime, checkOutTime) ==
  (checkOutTime - checkInTime) \div 1000

\* attendanceService.getTodaysAttendance(userId): the indexes of the
\* user's record of today
getTodaysAttendance(userId) ==
  {i \in 1..Len(attendance) :
     /\ attendance[i].userId = userId
     /\ DayOf(attendance[i].checkInTime) = DayOf(clock)}

\* POST /checkin: `faceOk` is faceService.verifyFace
checkin(userId, faceOk) ==
  /\ Len(attendance) < MaxCorrectRecords
  /\ IF \/ ~userActive[userId]
        \/ ~faceOk
        \/ \E i \in getTodaysAttendance(userId) :
             attendance[i].checkOutTime = 0
     THEN /\ result' = AttResult("checkin", FALSE, "rejected", userId,
                                 "none", 0)
          /\ UNCHANGED attendance
     ELSE /\ attendance' = Append(attendance,
               [userId |-> userId, checkInTime |-> clock, checkOutTime |-> 0,
                workDuration |-> 0, note |-> "none", corrections |-> <<>>])
          /\ result' = AttResult("checkin", TRUE, "none", userId, "none", 0)
  /\ UNCHANGED <<clock, ticks, images, recent, userActive, faceDescriptors,
                 reqs>>
  /\ UNCHANGED authVars

\* POST /checkout
checkout(userId, faceOk) ==
  /\ IF \/ ~userActive[userId]
        \/ ~faceOk
        \/ getTodaysAttendance(userId) = {}
        \/ \E i \in getTodaysAttendance(userId) :
             attendance[i].checkOutTime # 0
     THEN /\ result' = AttResult("checkout", FALSE, "rejected", userId,
                                 "none", 0)
          /\ UNCHANGED attendance
     ELSE /\ attendance' =
               [i \in 1..Len(attendance) |->
                  IF i \in getTodaysAttendance(userId)
                  THEN [attendance[i] EXCEPT
                          !.checkOutTime = clock,
                          !.workDuration =
                            workDurationOf(attendance[i].checkInTime, clock)]
                  ELSE attendance[i]]
          /\ result' = AttResult("checkout", TRUE, "none", userId, "none", 0)
  /\ UNCHANGED <<clock, ticks, images, recent, userActive, faceDescriptors,
                 reqs>>
  /\ UNCHANGED authVars

\* originalData / newData of a correction entry
correctionData(record) ==
  [checkInTime |-> record.checkInTime, checkOutTime |-> record.checkOutTime,
   workDuration |-> record.workDuration]

\* the record with the fields of the request body applied
updated(record, checkInTime, checkOutTime, note) ==
  LET in == IF checkInTime # 0 THEN checkInTime ELSE record.checkInTime
      out == IF checkOutTime # 0 THEN checkOutTime ELSE record.checkOutTime
  IN [record EXCEPT
        !.checkInTime = in,
        !.checkOutTime = out,
        !.note = IF note # "undefined" THEN note ELSE @,
        !.workDuration = IF in # 0 /\ out # 0 THEN workDurationOf(in, out)
                         ELSE @]

\* mutant: originalData is read after the record was updated
correctedLogAfter(record, checkInTime, checkOutTime, note) ==
  LET new == updated(record, checkInTime, checkOutTime, note) IN
  [new EXCEPT !.corrections = Append(@,
     [correctedAt |-> clock, originalData |-> correctionData(new),
      newData |-> correctionData(new)])]

\* the record the handler saves: updated, with the correction entry pushed
corrected(record, checkInTime, checkOutTime, note) ==
  LET new == updated(record, checkInTime, checkOutTime, note) IN
  [new EXCEPT !.corrections = Append(@,
     [correctedAt |-> clock, originalData |-> correctionData(record),
      newData |-> correctionData(new)])]

RECURSIVE TotalCorrections(_)
\* the number of correction entries of the first n records
TotalCorrections(n) ==
  IF n = 0 THEN 0
  ELSE Len(attendance[n].corrections) + TotalCorrections(n - 1)

\* PUT /:attendanceId/correct, the record being the i-th one
correctAttendance(i, checkInTime, checkOutTime, note) ==
  /\ TotalCorrections(Len(attendance)) < MaxCorrections
  /\ attendance' = [attendance EXCEPT ![i] =
       corrected(attendance[i], checkInTime, checkOutTime, note)]
  /\ result' = AttResult("correctAttendance", TRUE, "none",
                         attendance[i].userId, "none", 0)
  /\ UNCHANGED <<clock, ticks, images, recent, userActive, faceDescriptors,
                 reqs>>
  /\ UNCHANGED authVars

NextCorrect ==
  \/ \E u \in Users : \E faceOk \in BOOLEAN : checkin(u, faceOk)
  \/ \E u \in Users : \E faceOk \in BOOLEAN : checkout(u, faceOk)
  \/ \E i \in 1..Len(attendance) :
       \E checkInTime \in CheckInTimes : \E checkOutTime \in CheckOutTimes :
         \E note \in {"undefined", "fixed"} :
           correctAttendance(i, checkInTime, checkOutTime, note)

SpecCorrect == InitAtt /\ [][NextCorrect]_vars

-----------------------------------------------------------------------------
(* routes/attendance.js: /checkin and /checkout requests interleaved at    *)
(* their awaits.  `reqs` holds the requests that arrived, each with the    *)
(* record getTodaysAttendance returned to it (`seen`, 0: none).            *)

MaxCallers == 3

\* the record getTodaysAttendance(userId) returns: the latest of the user's
\* records of today, 0 when there is none
todaysAttendance(userId) ==
  IF getTodaysAttendance(userId) = {} THEN 0
  ELSE CHOOSE i \in getTodaysAttendance(userId) :
         \A j \in getTodaysAttendance(userId) : j <= i

\* POST /checkin up to and including await getTodaysAttendance(userId) and
\* the test on it
CheckinRead(userId, faceOk) ==
  /\ Len(reqs) < MaxCallers
  /\ LET existing == todaysAttendance(userId)
         rejected == \/ ~userActive[userId]
                     \/ ~faceOk
                     \/ (existing # 0 /\ attendance[existing].checkOutTime = 0)
     IN /\ reqs' = Append(reqs,
              [op |-> "checkin", user |-> userId, seen |-> existing,
               pc |-> IF rejected THEN "rejected" ELSE "create"])
        /\ result' = IF rejected
                     THEN AttResult("checkin", FALSE, "rejected", userId,
                                    "none", 0)
                     ELSE result
  /\ UNCHANGED <<clock, ticks, attendance, images, recent, userActive,
                 faceDescriptors>>
  /\ UNCHANGED authVars

\* POST /checkin from await attendanceService.createAttendance(...) on
CheckinCreate(r) ==
  /\ reqs[r].op = "checkin"
  /\ reqs[r].pc = "create"
  /\ attendance' = Append(attendance,
       [userId |-> reqs[r].user, checkInTime |-> clock, checkOutTime |-> 0,
        workDuration |-> 0, note |-> "none", corrections |-> <<>>])
  /\ reqs' = [reqs EXCEPT ![r].pc = "done"]
  /\ result' = AttResult("checkin", TRUE, "none", reqs[r].user, "none", 0)
  /\ UNCHANGED <<clock, ticks, images, recent, userActive, faceDescriptors>>
  /\ UNCHANGED authVars

\* POST /checkout up to and including await getTodaysAttendance(userId) and
\* the tests on it
CheckoutRead(userId, faceOk) ==
  /\ Len(reqs) < MaxCallers
  /\ LET existing == todaysAttendance(userId)
         rejected == \/ ~userActive[userId]
                     \/ ~faceOk
                     \/ existing = 0
                     \/ (existing # 0 /\ attendance[existing].checkOutTime # 0)
     IN /\ reqs' = Append(reqs,
              [op |-> "checkout", user |-> userId, seen |-> existing,
               pc |-> IF rejected THEN "rejected" ELSE "save"])
        /\ result' = IF rejected
                     THEN AttResult("checkout", FALSE, "rejected", userId,
                                    "none", 0)
                     ELSE result
  /\ UNCHANGED <<clock, ticks, attendance, images, recent, userActive,
                 faceDescriptors>>
  /\ UNCHANGED authVars

\* POST /checkout from await attendance.save() on
CheckoutSave(r) ==
  /\ reqs[r].op = "checkout"
  /\ reqs[r].pc = "save"
  /\ attendance' = [attendance EXCEPT ![reqs[r].seen] =
       [@ EXCEPT !.checkOutTime = clock,
                 !.workDuration =
                   workDurationOf(attendance[reqs[r].seen].checkInTime,
                                  clock)]]
  /\ reqs' = [reqs EXCEPT ![r].pc = "done"]
  /\ result' = AttResult("checkout", TRUE, "none", reqs[r].user, "none", 0)
  /\ UNCHANGED <<clock, ticks, images, recent, userActive, faceDescriptors>>
  /\ UNCHANGED authVars

NextRoutes ==
  \/ \E u \in Users : \E faceOk \in BOOLEAN : CheckinRead(u, faceOk)
  \/ \E r \in 1..Len(reqs) : CheckinCreate(r)
  \/ \E u \in Users : \E faceOk \in BOOLEAN : CheckoutRead(u, faceOk)
  \/ \E r \in 1..Len(reqs) : CheckoutSave(r)

SpecRoutes == InitAtt /\ [][NextRoutes]_vars

-----------------------------------------------------------------------------
(* Claims on the attendance state machine *)

\* the events of a user that lie in the day of instant t
EventsOn(userId, t) ==
  {i \in 1..Len(attendance) :
     /\ attendance[i].userId = userId
     /\ attendance[i].timestamp >= StartOfDay(t)
     /\ attendance[i].timestamp < NextMidnight(t)}

\* C1: for one person and one calendar day the persisted event types start
\* with ENTRY and strictly alternate (the log is in time order when requests
\* do not overlap)
C1_AlternationPerDay ==
  \A u \in Users :
    \A i \in 1..Len(EventsOf(u)) :
      LET e == EventsOf(u)[i] IN
      IF i = 1 \/ DayOf(EventsOf(u)[i - 1].timestamp) # DayOf(e.timestamp)
      THEN e.type = "ENTRY"
      ELSE e.type # EventsOf(u)[i - 1].type

\* C2: a person with no event in today's window is given ENTRY, whatever
\* marker is still cached
C2_NoEventTodayIsEntry ==
  \A u \in Users :
    EventsOn(u, clock) = {} =>
      \A last \in LastChoices(u) : determineAttendanceType(u, last) = "ENTRY"

\* C4: any two events processAttendance persists for one person are at
\* least the minimum inter-event interval apart
C4_EventsAtLeastIntervalApart ==
  \A i, j \in 1..Len(attendance) :
    (i < j /\ attendance[i].userId = attendance[j].userId) =>
      attendance[j].timestamp - attendance[i].timestamp
        >= MIN_TIME_BETWEEN_ENTRIES

\* an accepted event of the user lies less than the interval before now
RecentlyAccepted(userId) ==
  \E i \in 1..Len(attendance) :
    /\ attendance[i].userId = userId
    /\ clock - attendance[i].timestamp < MIN_TIME_BETWEEN_ENTRIES

\* C3: a check-in less than the interval after the previous accepted one is
\* rejected with 0 < wait <= window length (in seconds); one made once the
\* window has elapsed is accepted
C3_DuplicateSuppression ==
  [][\A u \in Users :
       processAttendanceCheck(u) =>
         IF RecentlyAccepted(u)
         THEN /\ result'.msg = "too_soon"
              /\ result'.wait > 0
              /\ result'.wait * 1000 <= MIN_TIME_BETWEEN_ENTRIES
         ELSE result'.ok]_vars

\* a check-in 4 minutes after the accepted one was rejected with 60 s to wait
C3_Witness ==
  /\ result.msg = "too_soon"
  /\ result.wait = 60
  /\ Len(EventsOf(result.user)) = 1

\* C5: a check-in rejected as too soon creates no event and leaves the
\* person's marker (lastType, timestamp, expiry) unchanged
C5_RejectionChangesNothing ==
  [][\A u \in Users :
       (processAttendanceCheck(u) /\ result'.msg = "too_soon") =>
         (attendance' = attendance /\ recent' = recent)]_vars

\* a rejection while the person's marker is cached and an event exists
C5_Witness ==
  /\ result.msg = "too_soon"
  /\ getRecentAttendance(result.user) # NoMarker
  /\ Len(attendance) > 0

\* C6: the duplicate check rests on the marker the request read and on
\* nothing else: a request is rejected only for a marker younger than the
\* interval, so a request whose read came before another's write passes
C6_CheckRestsOnMarkerRead ==
  \A r \in Reqs :
    LET q == reqs[r]
        young == /\ q.seen # NoMarker
                 /\ q.now - q.seen.timestamp < MIN_TIME_BETWEEN_ENTRIES
    IN
    /\ q.outcome = "too_soon" => young
    /\ q.pc \in {"determine", "save", "cache"} \/ q.outcome = "recorded"
         => ~young

\* two requests of one person both read "no marker", both passed the check
\* and both persisted an event, less than the interval apart
C6_Witness ==
  \E r1, r2 \in Reqs :
    /\ r1 # r2
    /\ reqs[r1].user = reqs[r2].user
    /\ reqs[r1].outcome = "recorded" /\ reqs[r2].outcome = "recorded"
    /\ reqs[r1].seen = NoMarker /\ reqs[r2].seen = NoMarker
    /\ reqs[r2].now - reqs[r1].now >= 0
    /\ reqs[r2].now - reqs[r1].now < MIN_TIME_BETWEEN_ENTRIES
    /\ Len(EventsOf(reqs[r1].user)) = 2

-----------------------------------------------------------------------------
(* Sessions: the AuthService keyed by sessionId (login, logout,            *)
(* validateToken, refreshToken, logoutAllSessions), one call at a time     *)

MaxSids == 2
MaxAuthTicks == 2

\* session ids where refreshes follow logins: one login and two refreshes,
\* or two logins and one refresh
MaxRefreshSids == 3

SessionIds == 1..MaxRefreshSids

\* a Redis session:<sessionId> key that is not set
NoEntry == [userId |-> "none", expiresAt |-> 0]

\* default ttl of setUserSession, in seconds
SESSION_TTL == 86400

\* getTokenExpirationTime() for jwt.expiresIn = "24h", in milliseconds
TokenExpirationTime == 24 * 60 * 60 * 1000

\* jwt.sign(payload, secret, { expiresIn: "24h" }): exp = iat + 24 h, where
\* iat = floor(Date.now() / 1000)
generateToken(userId, sessionId) ==
  [kind |-> "token", userId |-> userId, sessionId |-> sessionId,
   exp |-> (clock \div 1000) + (TokenExpirationTime \div 1000)]

\* mutant: the expiry of the token is not checked
jwtVerifyIgnoreExpiration(token) == TRUE

\* what jwt.verify throws: JsonWebTokenError for a malformed or wrongly
\* signed token, TokenExpiredError once floor(now / 1000) >= exp
jwtVerifyError(token) ==
  IF token.kind = "forged" THEN "JsonWebTokenError"
  ELSE IF (clock \div 1000) >= token.exp THEN "TokenExpiredError"
  ELSE "none"

\* jwt.verify returned the payload
jwtVerify(token) == jwtVerifyError(token) = "none"

\* CacheService.getUserSession: null when the key is missing or expired
getUserSession(sessionId) ==
  IF /\ sessionCache[sessionId].userId # "none"
     /\ clock < sessionCache[sessionId].expiresAt
  THEN sessionCache[sessionId]
  ELSE NoEntry

\* CacheService.setUserSession(sessionId, userData) on cache `cache`
setUserSession(cache, sessionId, userId) ==
  [cache EXCEPT ![sessionId] =
     [userId |-> userId, expiresAt |-> clock + SESSION_TTL * Second]]

\* mutant: the cache entry is left in place
removeUserSessionKept(cache, sessionId) == cache

\* CacheService.removeUserSession(sessionId) on cache `cache`
removeUserSession(cache, sessionId) ==
  [cache EXCEPT ![sessionId] = NoEntry]

\* mutant: the lookup does not filter on isActive
findActiveSessionAnyState(sessionId) ==
  {s \in sessions : s.sessionId = sessionId /\ s.expiresAt > clock}

\* Session.findActiveSession(sessionId) followed by session.isValid()
findActiveSession(sessionId) ==
  {s \in sessions :
     /\ s.sessionId = sessionId
     /\ s.isActive
     /\ s.expiresAt > clock}

\* what validateToken(token) returns in the current state
validateTokenValid(token) ==
  /\ jwtVerify(token)
  /\ \/ getUserSession(token.sessionId) # NoEntry /\ userActive[token.userId]
     \/ findActiveSession(token.sessionId) # {} /\ userActive[token.userId]

\* the session cache validateToken(token) leaves: it re-caches the
\* projection when it accepted through the durable store
validateTokenCache(token) ==
  IF /\ jwtVerify(token)
     /\ ~(getUserSession(token.sessionId) # NoEntry /\ userActive[token.userId])
     /\ findActiveSession(token.sessionId) # {}
     /\ userActive[token.userId]
  THEN setUserSession(sessionCache, token.sessionId, token.userId)
  ELSE sessionCache

\* mutant: a login ends the earlier sessions of the user
loginSingleSession(userId, passwordOk) ==
  /\ nextSid <= MaxSids
  /\ IF ~userActive[userId] \/ ~passwordOk
     THEN /\ result' = AuthResult("login", FALSE, userId, NoToken, NoToken,
                                  NoToken)
          /\ UNCHANGED <<sessions, sessionCache, tokens, nextSid>>
     ELSE LET sessionId == nextSid
              token == generateToken(userId, sessionId) IN
          /\ sessions' =
               {IF s.userId = userId THEN [s EXCEPT !.isActive = FALSE]
                ELSE s : s \in sessions} \cup
               {[rid |-> sessionId, userId |-> userId,
                 sessionId |-> sessionId, isActive |-> TRUE,
                 expiresAt |-> clock + TokenExpirationTime]}
          /\ sessionCache' =
               [sid \in SessionIds |->
                  IF sid = sessionId
                  THEN [userId |-> userId,
                        expiresAt |-> clock + SESSION_TTL * Second]
                  ELSE IF sessionCache[sid].userId = userId THEN NoEntry
                  ELSE sessionCache[sid]]
          /\ tokens' = tokens \cup {token}
          /\ nextSid' = nextSid + 1
          /\ result' = AuthResult("login", TRUE, userId, token, NoToken,
                                  NoToken)
  /\ UNCHANGED <<clock, ticks, attendance, images, recent, userActive,
                 faceDescriptors, reqs, loggedOut, procs>>

\* AuthService.login(email, password): `passwordOk` is comparePassword
login(userId, passwordOk) ==
  /\ nextSid <= MaxSids
  /\ IF ~userActive[userId] \/ ~passwordOk
     THEN /\ result' = AuthResult("login", FALSE, userId, NoToken, NoToken,
                                  NoToken)
          /\ UNCHANGED <<sessions, sessionCache, tokens, nextSid>>
     ELSE LET sessionId == nextSid
              token == generateToken(userId, sessionId) IN
          /\ sessions' = sessions \cup
               {[rid |-> sessionId, userId |-> userId,
                 sessionId |-> sessionId, isActive |-> TRUE,
                 expiresAt |-> clock + TokenExpirationTime]}
          /\ sessionCache' = setUserSession(sessionCache, sessionId, userId)
          /\ tokens' = tokens \cup {token}
          /\ nextSid' = nextSid + 1
          /\ result' = AuthResult("login", TRUE, userId, token, NoToken,
                                  NoToken)
  /\ UNCHANGED <<clock, ticks, attendance, images, recent, userActive,
                 faceDescriptors, reqs, loggedOut, procs>>

\* Session.updateOne({ sessionId, isActive: true }, { isActive: false })
deactivateSession(sessionId) ==
  {IF s.sessionId = sessionId /\ s.isActive
   THEN [s EXCEPT !.isActive = FALSE] ELSE s : s \in sessions}

\* AuthService.logout(sessionId)
logout(sessionId) ==
  /\ sessions' = deactivateSession(sessionId)
  /\ sessionCache' = removeUserSession(sessionCache, sessionId)
  /\ loggedOut' = loggedOut \cup {sessionId}
  /\ result' = AuthResult("logout", TRUE, "none", NoToken, NoToken, NoToken)
  /\ UNCHANGED <<clock, ticks, attendance, images, recent, userActive,
                 faceDescriptors, reqs, tokens, nextSid, procs>>

\* AuthService.validateToken(token)
validateToken(token) ==
  /\ sessionCache' = validateTokenCache(token)
  /\ result' = AuthResult("validateToken", validateTokenValid(token),
                          token.userId, token, NoToken, NoToken)
  /\ UNCHANGED <<clock, ticks, attendance, images, recent, userActive,
                 faceDescriptors, reqs, sessions, tokens, nextSid, loggedOut,
                 procs>>

\* Session.updateOne({ sessionId: old }, { sessionId: new, expiresAt })
moveSession(oldSessionId, newSessionId) ==
  {IF s.sessionId = oldSessionId
   THEN [s EXCEPT !.sessionId = newSessionId,
                  !.expiresAt = clock + TokenExpirationTime]
   ELSE s : s \in sessions}

\* AuthService.refreshToken(oldToken)
refreshToken(oldToken) ==
  /\ nextSid <= MaxSids
  /\ IF ~validateTokenValid(oldToken)
     THEN /\ sessionCache' = validateTokenCache(oldToken)
          /\ result' = AuthResult("refreshToken", FALSE, oldToken.userId,
                                  NoToken, oldToken, NoToken)
          /\ UNCHANGED <<sessions, tokens, nextSid>>
     ELSE LET newSessionId == nextSid
              newToken == generateToken(oldToken.userId, newSessionId) IN
          /\ sessions' = moveSession(oldToken.sessionId, newSessionId)
          /\ sessionCache' =
               setUserSession(
                 removeUserSession(validateTokenCache(oldToken),
                                   oldToken.sessionId),
                 newSessionId, oldToken.userId)
          /\ tokens' = tokens \cup {newToken}
          /\ nextSid' = nextSid + 1
          /\ result' = AuthResult("refreshToken", TRUE, oldToken.userId,
                                  newToken, oldToken, NoToken)
  /\ UNCHANGED <<clock, ticks, attendance, images, recent, userActive,
                 faceDescriptors, reqs, loggedOut, procs>>

\* Session.deactivateUserSessions(userId)
deactivateUserSessions(userId) ==
  {IF s.userId = userId /\ s.isActive
   THEN [s EXCEPT !.isActive = FALSE] ELSE s : s \in sessions}

\* AuthService.logoutAllSessions(userId): the cache is left as it is
logoutAllSessions(userId) ==
  /\ sessions' = deactivateUserSessions(userId)
  /\ result' = AuthResult("logoutAllSessions", TRUE, userId, NoToken, NoToken,
                          NoToken)
  /\ UNCHANGED <<clock, ticks, attendance, images, recent, userActive,
                 faceDescriptors, reqs, sessionCache, tokens, nextSid,
                 loggedOut, procs>>

\* AuthService.changePassword(userId, old, new) with the right old
\* password: saves the user, then logs out all sessions
changePassword(userId) ==
  /\ sessions' = deactivateUserSessions(userId)
  /\ result' = AuthResult("changePassword", TRUE, userId, NoToken, NoToken,
                          NoToken)
  /\ UNCHANGED <<clock, ticks, attendance, images, recent, userActive,
                 faceDescriptors, reqs, sessionCache, tokens, nextSid,
                 loggedOut, procs>>

AuthSteps == {12 * Hour, 24 * Hour}

TickAuth ==
  /\ ticks < MaxAuthTicks
  /\ \E d \in AuthSteps : clock' = clock + d
  /\ ticks' = ticks + 1
  /\ UNCHANGED <<attendance, images, recent, userActive, faceDescriptors,
                 result, reqs>>
  /\ UNCHANGED authVars

InitAuth ==
  /\ clock = 23 * Hour
  /\ ticks = 0
  /\ attendance = <<>>
  /\ images = {}
  /\ recent = [u \in Users |-> NoMarker]
  /\ userActive = [u \in Users |-> TRUE]
  /\ faceDescriptors = <<>>
  /\ result = NoResult
  /\ reqs = <<>>
  /\ sessions = {}
  /\ sessionCache = [s \in SessionIds |-> NoEntry]
  /\ tokens = {}
  /\ nextSid = 1
  /\ loggedOut = {}
  /\ procs = <<>>

\* generateSessionId() draws 32 random bytes: an identifier is never drawn
\* twice, and callers present identifiers that were issued
IssuedSids == 1..(nextSid - 1)

NextAuth ==
  \/ \E u \in Users : \E passwordOk \in BOOLEAN : login(u, passwordOk)
  \/ \E sid \in IssuedSids : logout(sid)
  \/ \E t \in tokens : validateToken(t)
  \/ \E t \in tokens : refreshToken(t)
  \/ \E u \in Users : logoutAllSessions(u)
  \/ \E u \in Users : changePassword(u)
  \/ TickAuth

SpecAuth == InitAuth /\ [][NextAuth]_vars

-----------------------------------------------------------------------------
(* Session lifecycle with the periodic cleanup *)

\* mutant: the sweep also deletes the rows that expire within a day
cleanupExpiringSessions ==
  /\ sessions' = {s \in sessions : ~(s.expiresAt < clock + Day \/ ~s.isActive)}
  /\ result' = AuthResult("cleanupExpiredSessions", TRUE, "none", NoToken,
                          NoToken, NoToken)
  /\ UNCHANGED <<clock, ticks, attendance, images, recent, userActive,
                 faceDescriptors, reqs, sessionCache, tokens, nextSid,
                 loggedOut, procs>>

\* AuthService.cleanupExpiredSessions: Session.deleteMany of the rows that
\* have expired or are inactive
cleanupExpiredSessions ==
  /\ sessions' = {s \in sessions : ~(s.expiresAt < clock \/ ~s.isActive)}
  /\ result' = AuthResult("cleanupExpiredSessions", TRUE, "none", NoToken,
                          NoToken, NoToken)
  /\ UNCHANGED <<clock, ticks, attendance, images, recent, userActive,
                 faceDescriptors, reqs, sessionCache, tokens, nextSid,
                 loggedOut, procs>>

MaxSessionTicks == 1

\* the clock advances by half a token lifetime, or to 200 ms before a
\* full one
SessionSteps == {12 * Hour, 24 * Hour - 200}

TickSession ==
  /\ ticks < MaxSessionTicks
  /\ \E d \in SessionSteps : clock' = clock + d
  /\ ticks' = ticks + 1
  /\ UNCHANGED <<attendance, images, recent, userActive, faceDescriptors,
                 result, reqs>>
  /\ UNCHANGED authVars

\* the service starts at an instant that is not a whole second
InitSession ==
  /\ clock = 23 * Hour + 500
  /\ ticks = 0
  /\ attendance = <<>>
  /\ images = {}
  /\ recent = [u \in Users |-> NoMarker]
  /\ userActive = [u \in Users |-> TRUE]
  /\ faceDescriptors = <<>>
  /\ result = NoResult
  /\ reqs = <<>>
  /\ sessions = {}
  /\ sessionCache = [s \in SessionIds |-> NoEntry]
  /\ tokens = {}
  /\ nextSid = 1
  /\ loggedOut = {}
  /\ procs = <<>>

NextSession ==
  \/ \E u \in Users : \E passwordOk \in BOOLEAN : login(u, passwordOk)
  \/ \E sid \in IssuedSids : logout(sid)
  \/ \E t \in tokens : validateToken(t)
  \/ \E t \in tokens : refreshToken(t)
  \/ \E u \in Users : logoutAllSessions(u)
  \/ cleanupExpiredSessions
  \/ TickSession

SpecSession == InitSession /\ [][NextSession]_vars

-----------------------------------------------------------------------------
(* Token validation presented with tokens the service did not sign *)

\* a string that is no JWT
MalformedToken ==
  [kind |-> "forged", userId |-> "none", sessionId |-> 0, exp |-> 0]

\* the tokens a caller may present: those issued, copies of them signed
\* with another secret, and a malformed one
Presented ==
  tokens \cup {[t EXCEPT !.kind = "forged"] : t \in tokens}
         \cup {MalformedToken}

\* what validateToken(token) returns: { valid, payload }
validateTokenReturn(token) ==
  [valid |-> validateTokenValid(token),
   payload |-> IF validateTokenValid(token) THEN token ELSE NoToken]

\* what AuthService.verifyToken throws ("none": it returns the payload)
verifyTokenError(token) ==
  IF jwtVerifyError(token) = "TokenExpiredError" THEN "Token expired"
  ELSE IF jwtVerifyError(token) = "JsonWebTokenError" THEN "Invalid token"
  ELSE "none"

NextVerify ==
  \/ \E u \in Users : \E passwordOk \in BOOLEAN : login(u, passwordOk)
  \/ \E sid \in IssuedSids : logout(sid)
  \/ \E t \in Presented : validateToken(t)
  \/ TickSession

SpecVerify == InitSession /\ [][NextVerify]_vars

-----------------------------------------------------------------------------
(* Sessions with failing stores: a call is given, for each store access   *)
(* it makes, whether that access succeeds.  getUserSession catches a      *)
(* Redis error and returns null; setUserSession logs it and rethrows;     *)
(* login and validateToken catch whatever is thrown inside them.          *)

MaxFaultSids == 1

\* PUT /users/:userId/status: user.isActive = isActive; user.save()
updateUserStatus(userId, isActive) ==
  /\ userActive' = [userActive EXCEPT ![userId] = isActive]
  /\ result' = AuthResult("updateUserStatus", TRUE, userId, NoToken, NoToken,
                          NoToken)
  /\ UNCHANGED <<clock, ticks, attendance, images, recent, faceDescriptors,
                 reqs>>
  /\ UNCHANGED authVars

\* what getUserSession returns to validateToken: null on a Redis error
cachedSession(sessionId, readOk) ==
  IF readOk THEN getUserSession(sessionId) ELSE NoEntry

\* mutant: a cache hit is accepted without loading the user
acceptedFromCacheAnyUser(token, readOk) ==
  /\ jwtVerify(token)
  /\ cachedSession(token.sessionId, readOk) # NoEntry

\* validateToken took the cache path and accepted
acceptedFromCache(token, readOk) ==
  /\ jwtVerify(token)
  /\ cachedSession(token.sessionId, readOk) # NoEntry
  /\ userActive[token.userId]

\* validateToken reached the re-caching of the durable fallback
acceptedFromStore(token, readOk) ==
  /\ jwtVerify(token)
  /\ ~acceptedFromCache(token, readOk)
  /\ findActiveSession(token.sessionId) # {}
  /\ userActive[token.userId]

\* AuthService.validateToken(token): `readOk` is the Redis get, `writeOk`
\* the Redis set of the re-caching
validateTokenIO(token, readOk, writeOk) ==
  /\ IF acceptedFromCache(token, readOk)
     THEN /\ result' = [AuthResult("validateToken", TRUE, token.userId, token,
                                   NoToken, NoToken) EXCEPT !.msg = "cache"]
          /\ UNCHANGED sessionCache
     ELSE IF acceptedFromStore(token, readOk) /\ writeOk
     THEN /\ result' = [AuthResult("validateToken", TRUE, token.userId, token,
                                   NoToken, NoToken) EXCEPT !.msg = "store"]
          /\ sessionCache' =
               setUserSession(sessionCache, token.sessionId, token.userId)
     ELSE /\ result' = [AuthResult("validateToken", FALSE, token.userId,
                                   token, NoToken, NoToken)
                          EXCEPT !.msg =
                            IF acceptedFromStore(token, readOk)
                            THEN "cache_write_failed" ELSE "rejected"]
          /\ UNCHANGED sessionCache
  /\ UNCHANGED <<clock, ticks, attendance, images, recent, userActive,
                 faceDescriptors, reqs, sessions, tokens, nextSid, loggedOut,
                 procs>>

\* AuthService.login(email, password): `saveOk` is session.save(),
\* `writeOk` the Redis set of setUserSession
loginIO(userId, passwordOk, saveOk, writeOk) ==
  /\ nextSid <= MaxFaultSids
  /\ IF ~userActive[userId] \/ ~passwordOk
     THEN /\ result' = [AuthResult("login", FALSE, userId, NoToken, NoToken,
                                   NoToken) EXCEPT !.msg = "invalid"]
          /\ UNCHANGED <<sessions, sessionCache, tokens, nextSid>>
     ELSE LET sessionId == nextSid
              token == generateToken(userId, sessionId)
              row == [rid |-> sessionId, userId |-> userId,
                      sessionId |-> sessionId, isActive |-> TRUE,
                      expiresAt |-> clock + TokenExpirationTime] IN
          /\ nextSid' = nextSid + 1
          /\ IF ~saveOk
             THEN /\ result' = [AuthResult("login", FALSE, userId, NoToken,
                                           NoToken, NoToken)
                                  EXCEPT !.msg = "save_failed"]
                  /\ UNCHANGED <<sessions, sessionCache, tokens>>
             ELSE IF ~writeOk
             THEN /\ sessions' = sessions \cup {row}
                  /\ result' = [AuthResult("login", FALSE, userId, NoToken,
                                           NoToken, NoToken)
                                  EXCEPT !.msg = "cache_write_failed"]
                  /\ UNCHANGED <<sessionCache, tokens>>
             ELSE /\ sessions' = sessions \cup {row}
                  /\ sessionCache' =
                       setUserSession(sessionCache, sessionId, userId)
                  /\ tokens' = tokens \cup {token}
                  /\ result' = [AuthResult("login", TRUE, userId, token,
                                           NoToken, NoToken)
                                  EXCEPT !.msg = "ok"]
  /\ UNCHANGED <<clock, ticks, attendance, images, recent, userActive,
                 faceDescriptors, reqs, loggedOut, procs>>

NextFault ==
  \/ \E u \in Users : \E passwordOk, saveOk, writeOk \in BOOLEAN :
       loginIO(u, passwordOk, saveOk, writeOk)
  \/ \E sid \in IssuedSids : logout(sid)
  \/ \E t \in tokens : \E readOk, writeOk \in BOOLEAN :
       validateTokenIO(t, readOk, writeOk)
  \/ \E u \in Users : \E isActive \in BOOLEAN : updateUserStatus(u, isActive)
  \/ TickSession

SpecFault == InitSession /\ [][NextFault]_vars

-----------------------------------------------------------------------------
(* refreshToken interleaved with other calls at its awaits *)

MaxProcs == 2

Procs == 1..MaxProcs

IdleProc == [pc |-> "idle", old |-> NoToken, new |-> NoToken, newSid |-> 0]

\* await this.validateToken(oldToken); newSessionId = generateSessionId()
RefreshValidate(p, oldToken) ==
  /\ procs[p].pc = "idle"
  /\ nextSid <= MaxRefreshSids
  /\ sessionCache' = validateTokenCache(oldToken)
  /\ IF validateTokenValid(oldToken)
     THEN /\ procs' = [procs EXCEPT ![p] =
                 [IdleProc EXCEPT !.pc = "update", !.old = oldToken,
                                  !.newSid = nextSid]]
          /\ nextSid' = nextSid + 1
          /\ UNCHANGED result
     ELSE /\ procs' = [procs EXCEPT ![p] =
                 [IdleProc EXCEPT !.pc = "failed", !.old = oldToken]]
          /\ result' = AuthResult("refreshToken", FALSE, oldToken.userId,
                                  NoToken, oldToken, NoToken)
          /\ UNCHANGED nextSid
  /\ UNCHANGED <<clock, ticks, attendance, images, recent, userActive,
                 faceDescriptors, reqs, sessions, tokens, loggedOut>>

\* await Session.updateOne(...); newToken = this.generateToken(...)
RefreshUpdate(p) ==
  /\ procs[p].pc = "update"
  /\ sessions' = moveSession(procs[p].old.sessionId, procs[p].newSid)
  /\ procs' = [procs EXCEPT ![p].pc = "remove",
                            ![p].new = generateToken(procs[p].old.userId,
                                                     procs[p].newSid)]
  /\ UNCHANGED <<clock, ticks, attendance, images, recent, userActive,
                 faceDescriptors, result, reqs, sessionCache, tokens, nextSid,
                 loggedOut>>

\* await this.cacheService.removeUserSession(old sessionId)
RefreshRemove(p) ==
  /\ procs[p].pc = "remove"
  /\ sessionCache' = removeUserSession(sessionCache, procs[p].old.sessionId)
  /\ procs' = [procs EXCEPT ![p].pc = "set"]
  /\ UNCHANGED <<clock, ticks, attendance, images, recent, userActive,
                 faceDescriptors, result, reqs, sessions, tokens, nextSid,
                 loggedOut>>

\* await this.cacheService.setUserSession(newSessionId, ...); return
RefreshSet(p) ==
  /\ procs[p].pc = "set"
  /\ sessionCache' = setUserSession(sessionCache, procs[p].newSid,
                                    procs[p].old.userId)
  /\ tokens' = tokens \cup {procs[p].new}
  /\ result' = AuthResult("refreshToken", TRUE, procs[p].old.userId,
                          procs[p].new, procs[p].old, NoToken)
  /\ procs' = [procs EXCEPT ![p].pc = "done"]
  /\ UNCHANGED <<clock, ticks, attendance, images, recent, userActive,
                 faceDescriptors, reqs, sessions, nextSid, loggedOut>>

InitRefresh ==
  /\ clock = 23 * Hour
  /\ ticks = 0
  /\ attendance = <<>>
  /\ images = {}
  /\ recent = [u \in Users |-> NoMarker]
  /\ userActive = [u \in Users |-> TRUE]
  /\ faceDescriptors = <<>>
  /\ result = NoResult
  /\ reqs = <<>>
  /\ sessions = {}
  /\ sessionCache = [s \in SessionIds |-> NoEntry]
  /\ tokens = {}
  /\ nextSid = 1
  /\ loggedOut = {}
  /\ procs = [p \in Procs |-> IdleProc]

NextRefresh ==
  \/ \E u \in Users : \E passwordOk \in BOOLEAN : login(u, passwordOk)
  \/ \E t \in tokens : validateToken(t)
  \/ \E p \in Procs : \E t \in tokens : RefreshValidate(p, t)
  \/ \E p \in Procs : RefreshUpdate(p)
  \/ \E p \in Procs : RefreshRemove(p)
  \/ \E p \in Procs : RefreshSet(p)
  \/ TickAuth

SpecRefresh == InitRefresh /\ [][NextRefresh]_vars

-----------------------------------------------------------------------------
(* Sessions: the AuthService that issues an access token and a refresh     *)
(* token (login, refreshToken, getSessionInfo, validateSession), with the  *)
(* cache of part_002; one call at a time.  A Session row holds the access  *)
(* token it was issued or last refreshed with.                             *)

\* ACCESS_TOKEN_EXPIRY = "15m" and the 15 * 60 of cacheSession, in seconds
ACCESS_TOKEN_SECONDS == 15 * 60

\* REFRESH_TOKEN_EXPIRY = "7d", in seconds
REFRESH_TOKEN_SECONDS == 7 * 24 * 60 * 60

\* expiresAt of a new Session: Date.now() + 7 * 24 * 60 * 60 * 1000
SessionLifetime == 7 * 24 * 60 * 60 * 1000

\* AuthService.generateTokens(user, sessionId): the access token
accessToken(userId, sessionId) ==
  [kind |-> "access", userId |-> userId, sessionId |-> sessionId,
   exp |-> (clock \div 1000) + ACCESS_TOKEN_SECONDS]

\* AuthService.generateTokens(user, sessionId): the refresh token
refreshTokenOf(userId, sessionId) ==
  [kind |-> "refresh", userId |-> userId, sessionId |-> sessionId,
   exp |-> (clock \div 1000) + REFRESH_TOKEN_SECONDS]

\* AuthService.verifyToken: jwt.verify, whatever kind of token it is given
verifyToken(token) == (clock \div 1000) < token.exp

\* CacheService.getSession
getSession(sessionId) ==
  IF /\ sessionCache[sessionId].userId # "none"
     /\ clock < sessionCache[sessionId].expiresAt
  THEN sessionCache[sessionId]
  ELSE NoEntry

\* CacheService.cacheSession(sessionId, sessionData, 15 * 60)
cacheSession(sessionId, userId) ==
  [sessionCache EXCEPT ![sessionId] =
     [userId |-> userId,
      expiresAt |-> clock + ACCESS_TOKEN_SECONDS * Second]]

\* AuthService.login(credentials): `passwordOk` is verifyPassword
login1(userId, passwordOk) ==
  /\ nextSid <= MaxRefreshSids
  /\ IF ~userActive[userId] \/ ~passwordOk
     THEN /\ result' = AuthResult("login1", FALSE, userId, NoToken, NoToken,
                                  NoToken)
          /\ UNCHANGED <<sessions, sessionCache, tokens, nextSid>>
     ELSE LET sessionId == nextSid
              access == accessToken(userId, sessionId)
              refresh == refreshTokenOf(userId, sessionId) IN
          /\ sessions' = sessions \cup
               {[rid |-> sessionId, userId |-> userId, token |-> access,
                 isActive |-> TRUE, expiresAt |-> clock + SessionLifetime]}
          /\ sessionCache' = cacheSession(sessionId, userId)
          /\ tokens' = tokens \cup {access, refresh}
          /\ nextSid' = nextSid + 1
          /\ result' = AuthResult("login1", TRUE, userId, access, NoToken,
                                  refresh)
  /\ UNCHANGED <<clock, ticks, attendance, images, recent, userActive,
                 faceDescriptors, reqs, loggedOut, procs>>

\* Session.findOne({ userId, isActive: true, expiresAt: { $gt: now } }):
\* the rows the query of refreshToken may return
activeSessionsOf(userId) ==
  {s \in sessions : s.userId = userId /\ s.isActive /\ s.expiresAt > clock}

\* whether refreshToken(token) would return tokens in the current state
refreshToken1Succeeds(token) ==
  /\ verifyToken(token)
  /\ activeSessionsOf(token.userId) # {}
  /\ userActive[token.userId]

\* AuthService.refreshToken(refreshToken)
refreshToken1(token) ==
  /\ nextSid <= MaxRefreshSids
  /\ IF ~refreshToken1Succeeds(token)
     THEN /\ result' = AuthResult("refreshToken1", FALSE, token.userId,
                                  NoToken, token, NoToken)
          /\ UNCHANGED <<sessions, sessionCache, tokens, nextSid>>
     ELSE \E session \in activeSessionsOf(token.userId) :
          LET newSessionId == nextSid
              access == accessToken(token.userId, newSessionId)
              refresh == refreshTokenOf(token.userId, newSessionId) IN
          /\ sessions' = (sessions \ {session}) \cup
                           {[session EXCEPT !.token = access]}
          /\ sessionCache' = cacheSession(newSessionId, token.userId)
          /\ tokens' = tokens \cup {access, refresh}
          /\ nextSid' = nextSid + 1
          /\ result' = AuthResult("refreshToken1", TRUE, token.userId,
                                  access, token, refresh)
  /\ UNCHANGED <<clock, ticks, attendance, images, recent, userActive,
                 faceDescriptors, reqs, loggedOut, procs>>

\* Session.findOne({ token, isActive: true, expiresAt: { $gt: now } })
sessionOfToken(token) ==
  {s \in sessions : s.token = token /\ s.isActive /\ s.expiresAt > clock}

\* whether getSessionInfo(token) returns session information
getSessionInfoOk(token) ==
  /\ verifyToken(token)
  /\ \/ getSession(token.sessionId) # NoEntry
     \/ sessionOfToken(token) # {}

\* AuthService.getSessionInfo(token): caches the session on the store path
getSessionInfo(token) ==
  /\ sessionCache' =
       IF /\ verifyToken(token)
          /\ getSession(token.sessionId) = NoEntry
          /\ sessionOfToken(token) # {}
       THEN cacheSession(token.sessionId, token.userId)
       ELSE sessionCache
  /\ result' = AuthResult("getSessionInfo", getSessionInfoOk(token),
                          token.userId, token, NoToken, NoToken)
  /\ UNCHANGED <<clock, ticks, attendance, images, recent, userActive,
                 faceDescriptors, reqs, sessions, tokens, nextSid, loggedOut,
                 procs>>

\* AuthService.validateSession(token)
validateSession(token) ==
  /\ result' = AuthResult("validateSession",
                          verifyToken(token) /\ sessionOfToken(token) # {},
                          token.userId, token, NoToken, NoToken)
  /\ UNCHANGED <<clock, ticks, attendance, images, recent, userActive,
                 faceDescriptors, reqs>>
  /\ UNCHANGED authVars

\* CacheService.flushPattern("session:*"): redis.keys, then del of them all
flushPattern == [sid \in SessionIds |-> NoEntry]

\* AuthService.logoutAllSessions(userId) of this variant: updateMany on the
\* user's rows, then the flush of every session:* key
logoutAllSessions1(userId) ==
  /\ sessions' = {IF s.userId = userId /\ s.isActive
                  THEN [s EXCEPT !.isActive = FALSE] ELSE s : s \in sessions}
  /\ sessionCache' = flushPattern
  /\ result' = AuthResult("logoutAllSessions1", TRUE, userId, NoToken,
                          NoToken, NoToken)
  /\ UNCHANGED <<clock, ticks, attendance, images, recent, userActive,
                 faceDescriptors, reqs, tokens, nextSid, loggedOut, procs>>

Auth1Steps == {10 * Minute, 15 * Minute, 7 * Day}

TickAuth1 ==
  /\ ticks < MaxAuthTicks
  /\ \E d \in Auth1Steps : clock' = clock + d
  /\ ticks' = ticks + 1
  /\ UNCHANGED <<attendance, images, recent, userActive, faceDescriptors,
                 result, reqs>>
  /\ UNCHANGED authVars

NextAuth1 ==
  \/ \E u \in Users : \E passwordOk \in BOOLEAN : login1(u, passwordOk)
  \/ \E t \in tokens : refreshToken1(t)
  \/ \E t \in tokens : getSessionInfo(t)
  \/ \E t \in tokens : validateSession(t)
  \/ \E u \in Users : logoutAllSessions1(u)
  \/ TickAuth1

SpecAuth1 == InitAuth /\ [][NextAuth1]_vars

-----------------------------------------------------------------------------
(* Face matching (faceRecognitionService.ts) in front of the check-in,    *)
(* with users being deactivated and reactivated.  A probe is given by its *)
(* Euclidean distance to each registered user's descriptor, in tenths.    *)

MaxFaceTicks == 1
MaxFaceEvents == 2

\* FACE_DISTANCE_THRESHOLD = 0.4, in tenths
FACE_DISTANCE_THRESHOLD == 4

\* face-api.js returns 128-dimensional vectors
DESCRIPTOR_LENGTH == 128

Distances == {2, 3, 4, 5}

Probes == [Users -> Distances]

\* User.find({ isActive: true }, "faceDescriptor"): the schema requires a
\* faceDescriptor of length 128 of every User document
activeUsers == {u \in Users : userActive[u]}

\* loadAndCacheFaceDescriptors(): the descriptors it caches and returns
loadAndCacheFaceDescriptors ==
  [u \in activeUsers |-> DESCRIPTOR_LENGTH]

\* getAllFaceDescriptors(), and loadAndCacheFaceDescriptors() when the
\* cache is empty
cachedDescriptors ==
  IF DOMAIN faceDescriptors = {} THEN loadAndCacheFaceDescriptors
  ELSE faceDescriptors

\* FaceMatch: confidence = 1 - distance, in tenths
FaceMatch(userId, distance) ==
  [userId |-> userId, distance |-> distance, confidence |-> 10 - distance]

\* findMatchingUser returned null
NoMatch == [userId |-> "none", distance |-> 0, confidence |-> 0]

\* findMatchingUser threw "Failed to match face"
MatchFailed == [userId |-> "failed", distance |-> 0, confidence |-> 0]

\* calculateEuclideanDistance throws: "Descriptors must have the same
\* length" (the probe is the extractor's 128-dimensional vector)
lengthMismatch(descriptors) ==
  \E u \in DOMAIN descriptors : descriptors[u] # DESCRIPTOR_LENGTH

\* the nearest of the users `near`, as FaceMatch records
nearestOf(probe, near) ==
  {FaceMatch(u, probe[u]) :
     u \in {w \in near : \A v \in near : probe[w] <= probe[v]}}

\* mutant: the match does not look at User.isActive
findMatchingUserAnyStatus(probe) ==
  LET near == {u \in DOMAIN cachedDescriptors :
                 probe[u] < FACE_DISTANCE_THRESHOLD}
  IN IF near = {} THEN {NoMatch} ELSE nearestOf(probe, near)

\* mutant: minDistance is lowered before the user is looked up, so a nearer
\* deactivated user hides the active one
findMatchingUserNearestFirst(probe) ==
  LET near == {u \in DOMAIN cachedDescriptors :
                 probe[u] < FACE_DISTANCE_THRESHOLD}
      best == {m \in nearestOf(probe, near) : userActive[m.userId]}
  IN IF best = {} THEN {NoMatch} ELSE best

\* mutant: distance <= FACE_DISTANCE_THRESHOLD
findMatchingUserInclusive(probe) ==
  LET near == {u \in DOMAIN cachedDescriptors :
                 probe[u] <= FACE_DISTANCE_THRESHOLD /\ userActive[u]}
  IN IF near = {} THEN {NoMatch} ELSE nearestOf(probe, near)

\* mutant: without `distance < minDistance`, a later active user within the
\* threshold replaces a nearer one found before
findMatchingUserLastFound(probe) ==
  LET near == {u \in DOMAIN cachedDescriptors :
                 probe[u] < FACE_DISTANCE_THRESHOLD /\ userActive[u]}
  IN IF near = {} THEN {NoMatch}
     ELSE {FaceMatch(u, probe[u]) : u \in near}

\* FaceRecognitionService.findMatchingUser: the matches it may return for
\* the probe; on equal distances the iteration order of the cached
\* descriptors decides
findMatchingUser(probe) ==
  LET near == {u \in DOMAIN cachedDescriptors :
                 probe[u] < FACE_DISTANCE_THRESHOLD /\ userActive[u]}
  IN IF lengthMismatch(cachedDescriptors) THEN {MatchFailed}
     ELSE IF near = {} THEN {NoMatch}
     ELSE nearestOf(probe, near)

\* a cached descriptor of a deactivated user lies within the threshold
nearInactive(probe) ==
  \E u \in DOMAIN cachedDescriptors :
    probe[u] < FACE_DISTANCE_THRESHOLD /\ ~userActive[u]

\* AttendanceService.processAttendanceCheck(request) with the match made
\* by findMatchingUser on the request's probe
processAttendanceCheckByFace(probe) ==
  /\ Len(attendance) < MaxFaceEvents
  /\ faceDescriptors' = cachedDescriptors
  /\ \E match \in findMatchingUser(probe) :
       LET userId == match.userId IN
       IF match = MatchFailed
       THEN /\ result' = AttResult("processAttendanceCheck", FALSE, "failed",
                                   "none", "none", 0)
            /\ UNCHANGED attVars
       ELSE IF match = NoMatch
       THEN /\ result' = AttResult("processAttendanceCheck", FALSE,
                                   IF nearInactive(probe)
                                   THEN "not_recognized_inactive"
                                   ELSE "not_recognized",
                                   "none", "none", 0)
            /\ UNCHANGED attVars
       ELSE IF tooSoon(getRecentAttendance(userId), clock)
       THEN rejectTooSoon(userId, getRecentAttendance(userId), clock)
       ELSE \E last \in LastChoices(userId) :
              LET attendanceType ==
                    determineAttendanceTypeOfCheck(userId, last) IN
              /\ attendance' = Append(attendance,
                   [userId |-> userId, type |-> attendanceType,
                    timestamp |-> clock])
              /\ UNCHANGED images
              /\ recent' = cacheRecentAttendance(userId, attendanceType,
                                                 clock)
              /\ result' =
                   [AttResult("processAttendanceCheck", TRUE, "recorded",
                              userId, attendanceType, 0)
                    EXCEPT !.confidence = match.confidence,
                           !.probe = probe]
  /\ UNCHANGED <<clock, ticks, userActive, reqs>>
  /\ UNCHANGED authVars

FaceSteps == {5 * Minute}

TickFace ==
  /\ ticks < MaxFaceTicks
  /\ \E d \in FaceSteps : clock' = clock + d
  /\ ticks' = ticks + 1
  /\ UNCHANGED <<attendance, images, recent, userActive, faceDescriptors,
                 result, reqs>>
  /\ UNCHANGED authVars

\* processAttendance of attendanceService.ts matches against the cached
\* descriptors without looking at isActive, then loads the user
NextFace ==
  \/ \E probe \in Probes : processAttendanceCheckByFace(probe)
  \/ \E u \in DOMAIN faceDescriptors :
       Len(attendance) < MaxFaceEvents /\ processAttendance(u)
  \/ \E u \in Users : \E isActive \in BOOLEAN : updateUserStatus(u, isActive)
  \/ TickFace

SpecFace == InitAtt /\ [][NextFace]_vars

-----------------------------------------------------------------------------
(* The lazy rebuild of the descriptor cache, requests interleaved at their *)
(* awaits: each request reads the cache, and when it found it empty it     *)
(* queries the active users and caches their descriptors one by one.       *)

MaxLoaders == 2

Loaders == 1..MaxLoaders

IdleLoader == [pc |-> "idle", users |-> {}, loaded |-> FALSE]

\* mutant: the write replaces the whole gallery by the one descriptor
cacheFaceDescriptorAlone(cache, userId, descriptor) ==
  [u \in {userId} |-> descriptor]

\* CacheService.cacheFaceDescriptor / setFaceDescriptor on cache `cache`:
\* sets the key (the hash field) of userId
cacheFaceDescriptor(cache, userId, descriptor) ==
  [u \in DOMAIN cache \cup {userId} |->
     IF u = userId THEN descriptor ELSE cache[u]]

\* await getAllFaceDescriptors(): the request rebuilds when it is empty
LoadGetAll(r) ==
  /\ reqs[r].pc = "idle"
  /\ reqs' = [reqs EXCEPT ![r] =
       IF DOMAIN faceDescriptors = {} THEN [@ EXCEPT !.pc = "find"]
       ELSE [@ EXCEPT !.pc = "done"]]
  /\ UNCHANGED <<clock, ticks, attendance, images, recent, userActive,
                 faceDescriptors, result>>
  /\ UNCHANGED authVars

\* await User.find({ isActive: true }, "faceDescriptor")
LoadFind(r) ==
  /\ reqs[r].pc = "find"
  /\ reqs' = [reqs EXCEPT ![r] =
       [@ EXCEPT !.pc = "cache", !.users = activeUsers, !.loaded = TRUE]]
  /\ UNCHANGED <<clock, ticks, attendance, images, recent, userActive,
                 faceDescriptors, result>>
  /\ UNCHANGED authVars

\* one pass of the loop: await cacheFaceDescriptor(user._id, descriptor)
LoadCache(r) ==
  /\ reqs[r].pc = "cache"
  /\ \E u \in reqs[r].users :
       /\ faceDescriptors' =
            cacheFaceDescriptor(faceDescriptors, u, DESCRIPTOR_LENGTH)
       /\ reqs' = [reqs EXCEPT ![r].users = @ \ {u}]
  /\ UNCHANGED <<clock, ticks, attendance, images, recent, userActive,
                 result>>
  /\ UNCHANGED authVars

\* the loop is over: the rebuild returns
LoadReturn(r) ==
  /\ reqs[r].pc = "cache"
  /\ reqs[r].users = {}
  /\ reqs' = [reqs EXCEPT ![r].pc = "done"]
  /\ UNCHANGED <<clock, ticks, attendance, images, recent, userActive,
                 faceDescriptors, result>>
  /\ UNCHANGED authVars

\* the store holds any set of active users; the cache starts empty
InitRebuild ==
  /\ clock = 23 * Hour
  /\ ticks = 0
  /\ attendance = <<>>
  /\ images = {}
  /\ recent = [u \in Users |-> NoMarker]
  /\ userActive \in [Users -> BOOLEAN]
  /\ faceDescriptors = <<>>
  /\ result = NoResult
  /\ reqs = [r \in Loaders |-> IdleLoader]
  /\ InitAuthIdle

NextRebuild ==
  \/ \E r \in Loaders : LoadGetAll(r)
  \/ \E r \in Loaders : LoadFind(r)
  \/ \E r \in Loaders : LoadCache(r)
  \/ \E r \in Loaders : LoadReturn(r)

SpecRebuild == InitRebuild /\ [][NextRebuild]_vars

-----------------------------------------------------------------------------
(* The operations that write the descriptor cache, called with descriptors *)
(* of any length, in front of the check-in                                 *)

MaxGalleryEvents == 1

\* lengths of the number[] a caller may pass
DescriptorLengths == {64, 128}

\* FaceRecognitionService.registerUserFace(userId, descriptor)
registerUserFace(userId, descriptor) ==
  /\ faceDescriptors' = cacheFaceDescriptor(faceDescriptors, userId, descriptor)
  /\ result' = AttResult("registerUserFace", TRUE, "none", userId, "none", 0)
  /\ UNCHANGED <<clock, ticks, attendance, images, recent, userActive, reqs>>
  /\ UNCHANGED authVars

\* FaceRecognitionService.updateUserFace(userId, descriptor)
updateUserFace(userId, descriptor) ==
  /\ faceDescriptors' = cacheFaceDescriptor(faceDescriptors, userId, descriptor)
  /\ result' = AttResult("updateUserFace", TRUE, "none", userId, "none", 0)
  /\ UNCHANGED <<clock, ticks, attendance, images, recent, userActive, reqs>>
  /\ UNCHANGED authVars

\* AttendanceService.syncFaceDescriptorToCache(userId, faceDescriptor)
syncFaceDescriptorToCache(userId, descriptor) ==
  /\ faceDescriptors' = cacheFaceDescriptor(faceDescriptors, userId, descriptor)
  /\ result' = AttResult("syncFaceDescriptorToCache", TRUE, "none", userId,
                         "none", 0)
  /\ UNCHANGED <<clock, ticks, attendance, images, recent, userActive, reqs>>
  /\ UNCHANGED authVars

\* FaceRecognitionService.removeUserFace(userId): del face_descriptors:userId
removeUserFace(userId) ==
  /\ faceDescriptors' =
       [u \in DOMAIN faceDescriptors \ {userId} |-> faceDescriptors[u]]
  /\ result' = AttResult("removeUserFace", TRUE, "none", userId, "none", 0)
  /\ UNCHANGED <<clock, ticks, attendance, images, recent, userActive, reqs>>
  /\ UNCHANGED authVars

NextGallery ==
  \/ \E u \in Users : \E d \in DescriptorLengths : registerUserFace(u, d)
  \/ \E u \in Users : \E d \in DescriptorLengths : updateUserFace(u, d)
  \/ \E u \in Users : \E d \in DescriptorLengths :
       syncFaceDescriptorToCache(u, d)
  \/ \E u \in Users : removeUserFace(u)
  \/ \E probe \in Probes :
       Len(attendance) < MaxGalleryEvents /\ processAttendanceCheckByFace(probe)
  \/ \E u \in Users : \E isActive \in BOOLEAN : updateUserStatus(u, isActive)

SpecGallery == InitAtt /\ [][NextGallery]_vars

-----------------------------------------------------------------------------
(* Claims on the session lifecycle *)

\* C7: after refreshToken(oldToken) returned success the old token no longer
\* validates and cannot refresh again, and the new token validates (stated
\* for the service that issues access and refresh tokens)
C7_OldTokenUnusable ==
  (result.op = "refreshToken1" /\ result.ok) =>
    /\ ~refreshToken1Succeeds(result.oldToken)
    /\ \A t \in tokens :
         t.sessionId = result.oldToken.sessionId => ~getSessionInfoOk(t)
    /\ verifyToken(result.token) => getSessionInfoOk(result.token)

\* C8: at no point of a refresh after its durable update would
\* validateToken accept both the old token and the new one
C8_NeverBothValid ==
  \A p \in Procs :
    procs[p].pc \in {"remove", "set"} =>
      ~(validateTokenValid(procs[p].old) /\ validateTokenValid(procs[p].new))

\* C9: after logout(sessionId) the durable row is inactive, the cache
\* projection of that sessionId is gone, and no token bound to the session
\* validates
C9_LogoutRevokes ==
  \A sid \in loggedOut :
    /\ \A s \in sessions : s.sessionId = sid => ~s.isActive
    /\ getUserSession(sid) = NoEntry
    /\ \A t \in tokens : t.sessionId = sid => ~validateTokenValid(t)

\* a logged-out session whose token and durable row have not expired
C9_Witness ==
  \E t \in tokens :
    /\ t.sessionId \in loggedOut
    /\ jwtVerify(t)
    /\ \E s \in sessions :
         s.sessionId = t.sessionId /\ ~s.isActive /\ s.expiresAt > clock

\* C10: after logoutAllSessions(userId) no token of that user validates,
\* also while the session's cache projection is still present
C10_LogoutAllRevokes ==
  (result.op \in {"logoutAllSessions", "changePassword"} /\ result.ok) =>
    \A t \in tokens : t.userId = result.user => ~validateTokenValid(t)

\* C11: a session that has been revoked is terminal: no token bound to a
\* durable row that is inactive validates, whether the token was issued at
\* login or obtained by refreshing the session
C11_RevokedStaysInvalid ==
  \A t \in tokens :
    (\E s \in sessions : s.sessionId = t.sessionId /\ ~s.isActive) =>
      ~validateTokenValid(t)

\* the instant T at which a token expires, in milliseconds
ExpiryInstant(t) == t.exp * 1000

\* C12: a token is accepted at every time before its expiry T while its
\* session row is active and its user is active, and is rejected at every
\* time at or after T, with or without a cache projection
C12_ExpiryDecides ==
  \A t \in tokens :
    /\ clock >= ExpiryInstant(t) => ~validateTokenValid(t)
    /\ ( /\ clock < ExpiryInstant(t)
         /\ userActive[t.userId]
         /\ \E s \in sessions : s.sessionId = t.sessionId /\ s.isActive )
       => validateTokenValid(t)

\* a token past its expiry whose cache projection and durable row are
\* both still live
C12_Witness ==
  \E t \in tokens :
    /\ clock >= ExpiryInstant(t)
    /\ getUserSession(t.sessionId) # NoEntry
    /\ findActiveSession(t.sessionId) # {}

\* C13: when validateToken finds no cache projection for a verified token
\* (key absent, expired, or the read failed) and its cache write works, it
\* accepts exactly when the durable row of the token's sessionId is active
\* and unexpired and the user is active; on acceptance it writes the
\* projection of that sessionId, otherwise it leaves the cache as it is
C13_FallbackDecides ==
  [][\A t \in tokens : \A readOk \in BOOLEAN :
       ( /\ validateTokenIO(t, readOk, TRUE)
         /\ (clock \div 1000) < t.exp
         /\ (~readOk \/ getUserSession(t.sessionId) = NoEntry) )
       => LET accept ==
                /\ \E s \in sessions :
                     /\ s.sessionId = t.sessionId
                     /\ s.isActive
                     /\ s.expiresAt > clock
                /\ userActive[t.userId]
          IN /\ result'.ok = accept
             /\ IF accept
                THEN sessionCache' =
                       [sessionCache EXCEPT ![t.sessionId] =
                          [userId |-> t.userId,
                           expiresAt |-> clock + SESSION_TTL * Second]]
                ELSE sessionCache' = sessionCache]_vars

\* validateToken has accepted a token through the durable fallback
C13_Witness ==
  /\ result.op = "validateToken"
  /\ result.ok
  /\ result.msg = "store"
  /\ getUserSession(result.token.sessionId) # NoEntry

\* C14: a successful login adds exactly one durable row and writes exactly
\* one cache projection, both under a session id that had neither, leaves
\* every other row and projection as it was, and every token that
\* validated before the login validates after it
C14_LoginAddsOneSession ==
  [][\A u \in Users :
       (login(u, TRUE) /\ result'.ok)
       => /\ \E row \in sessions' :
               /\ row \notin sessions
               /\ sessions' = sessions \cup {row}
               /\ row.userId = u /\ row.isActive
               /\ \A s \in sessions : s.sessionId # row.sessionId
               /\ sessionCache[row.sessionId] = NoEntry
               /\ sessionCache'[row.sessionId].userId = u
               /\ \A sid \in SessionIds \ {row.sessionId} :
                    sessionCache'[sid] = sessionCache[sid]
          /\ \A t \in tokens :
               validateTokenValid(t) => validateTokenValid(t)']_vars

\* the person logged in while holding an earlier session, and the earlier
\* token still validates
C14_Witness ==
  /\ result.op = "login"
  /\ result.ok
  /\ \E t \in tokens :
       /\ t # result.token
       /\ t.userId = result.user
       /\ validateTokenValid(t)

\* C15: login and refreshToken return a token only when a durable Session
\* row carrying that token's session identifier exists
C15_TokenHasDurableRow ==
  (result.op \in {"login", "refreshToken"} /\ result.ok) =>
    \E s \in sessions : s.sessionId = result.token.sessionId

\* C16: a marker is only ever written for an event that is in the durable
\* store: every cached marker (lastType, timestamp) has its AttendanceEvent
C16_MarkerOnlyForSavedEvent ==
  \A u \in Users :
    recent[u] # NoMarker =>
      \E i \in 1..Len(attendance) :
        /\ attendance[i].userId = u
        /\ attendance[i].type = recent[u].lastType
        /\ attendance[i].timestamp = recent[u].timestamp

\* the durable save of a first check-in has failed and no marker exists
C16_Witness ==
  /\ result.op = "processAttendance"
  /\ result.msg = "save_failed"
  /\ recent[result.user] = NoMarker
  /\ \A i \in 1..Len(attendance) : attendance[i].userId # result.user

\* C17: a check-in whose durable save fails ends in a failure result and
\* leaves nothing behind: no event, no marker change, no attendance image
C17_FailedSaveLeavesNothing ==
  [][\A u \in Users : \A imageOk, cacheOk \in BOOLEAN :
       (userActive[u] /\ processAttendanceIO(u, imageOk, FALSE, cacheOk))
       => /\ ~result'.ok
          /\ attendance' = attendance
          /\ recent' = recent
          /\ images' = images]_vars

\* C18: a check-in whose marker write fails after the event was persisted
\* still reports success for the persisted event
C18_MarkerFailureTolerated ==
  [][\A u \in Users : \A imageOk \in BOOLEAN :
       (userActive[u] /\ processAttendanceIO(u, imageOk, TRUE, FALSE))
       => /\ result'.ok
          /\ Len(attendance') = Len(attendance) + 1]_vars

\* C19: a failing cache write does not change the outcome of a session
\* operation: login still returns the token once the durable row was
\* saved, and validateToken still accepts a session that the durable
\* fallback found valid
C19_CacheFailureSwallowed ==
  [][/\ \A u \in Users :
          (userActive[u] /\ loginIO(u, TRUE, TRUE, FALSE))
          => (result'.ok /\ result'.token # NoToken)
     /\ \A t \in tokens : \A readOk \in BOOLEAN :
          (acceptedFromStore(t, readOk) /\ validateTokenIO(t, readOk, FALSE))
          => result'.ok]_vars

\* C20: a deactivated person is never returned by a match and no check-in
\* records an event for them, also while their descriptor is still cached
C20_InactiveNeverMatched ==
  [][/\ \A probe \in Probes : \A m \in findMatchingUser(probe) :
          m.userId \in Users => userActive[m.userId]
     /\ Len(attendance') > Len(attendance) =>
          userActive[attendance'[Len(attendance')].userId]]_vars

\* a check-in whose probe lay within the threshold of the cached
\* descriptor of a deactivated person was answered as not recognized
C20_Witness ==
  /\ result.op = "processAttendanceCheck"
  /\ result.msg = "not_recognized_inactive"
  /\ \E u \in DOMAIN faceDescriptors : ~userActive[u]

\* exactly `u`, of the cached descriptors' active users, lies within the
\* threshold of the probe
onlyActiveNear(probe, u) ==
  /\ ~lengthMismatch(cachedDescriptors)
  /\ {v \in DOMAIN cachedDescriptors :
        userActive[v] /\ probe[v] < FACE_DISTANCE_THRESHOLD} = {u}

\* C21: a probe below the threshold to exactly one active person of the
\* gallery is matched to that person with the distance found and
\* confidence = 1 - distance, and the check-in built on the match answers
\* for that person with that confidence
C21_MatchesOnlyActiveNear ==
  [][\A probe \in Probes : \A u \in Users :
       onlyActiveNear(probe, u) =>
         /\ findMatchingUser(probe) =
              {[userId |-> u, distance |-> probe[u],
                confidence |-> 10 - probe[u]]}
         /\ processAttendanceCheckByFace(probe) =>
              /\ result'.user = u
              /\ result'.ok => result'.confidence = 10 - probe[u]]_vars

\* a check-in was recorded with confidence 0.7 for the one active person
\* within the threshold while a deactivated person is cached as well
C21_Witness ==
  /\ result.op = "processAttendanceCheck"
  /\ result.ok
  /\ result.confidence = 7
  /\ \E u \in DOMAIN faceDescriptors : ~userActive[u]

\* no active person of the cached descriptors lies within the threshold
noActiveNear(probe) ==
  /\ ~lengthMismatch(cachedDescriptors)
  /\ \A u \in DOMAIN cachedDescriptors :
       userActive[u] => probe[u] >= FACE_DISTANCE_THRESHOLD

\* C22: a probe at or beyond the threshold to every active person of the
\* gallery is matched to nobody, and the check-in built on the match
\* records no event
C22_NoMatchBeyondThreshold ==
  [][\A probe \in Probes :
       noActiveNear(probe) =>
         /\ findMatchingUser(probe) = {NoMatch}
         /\ processAttendanceCheckByFace(probe) =>
              /\ attendance' = attendance
              /\ recent' = recent
              /\ ~result'.ok]_vars

\* a check-in was answered as not recognized while every person is active
\* and cached: the probe was at or beyond the threshold to all of them
C22_Witness ==
  /\ result.op = "processAttendanceCheck"
  /\ result.msg = "not_recognized"
  /\ DOMAIN faceDescriptors = Users
  /\ \A u \in Users : userActive[u]

\* C23: validateToken answers an expired token differently from a malformed
\* or wrongly signed one
C23_ExpiredDistinctFromInvalid ==
  \A t1, t2 \in Presented :
    (/\ jwtVerifyError(t1) = "TokenExpiredError"
     /\ jwtVerifyError(t2) = "JsonWebTokenError")
    => validateTokenReturn(t1) # validateTokenReturn(t2)

\* a row the sweep's filter selects: { expiresAt < now } or { isActive: false }
sweepable(s) == s.expiresAt < clock \/ ~s.isActive

\* C24: cleanupExpiredSessions deletes only rows that are expired or
\* inactive and leaves what validateToken answers and caches for every
\* token as it was; and a row the sweep may delete is never again a row
\* validateToken could accept, whether or not the sweep ran, so no later
\* validateToken call depends on the sweep having run
C24_SweepOnlyReclaims ==
  [][/\ cleanupExpiredSessions =>
          /\ sessions' \subseteq sessions
          /\ \A s \in sessions : ~sweepable(s) => s \in sessions'
          /\ \A t \in Presented :
               /\ validateTokenValid(t)' = validateTokenValid(t)
               /\ validateTokenCache(t)' = validateTokenCache(t)
     /\ \A s \in sessions : \A r \in sessions' :
          (sweepable(s) /\ r.rid = s.rid) =>
            /\ sweepable(r)'
            /\ findActiveSession(r.sessionId)' = {}]_vars

\* every durable row has been swept while a token signed for one of them
\* has not expired, and validateToken was then called
C24_Witness ==
  /\ result.op = "validateToken"
  /\ ~result.ok
  /\ jwtVerify(result.token)
  /\ sessions = {}

\* C25: a cached session projection ends no later than the durable session
\* of its sessionId and no later than any token signed for that sessionId
C25_CacheEndsBeforeSession ==
  \A sid \in SessionIds :
    sessionCache[sid] # NoEntry =>
      /\ \A s \in sessions :
           s.sessionId = sid => sessionCache[sid].expiresAt <= s.expiresAt
      /\ \A t \in tokens :
           t.sessionId = sid => sessionCache[sid].expiresAt <= t.exp * 1000

\* C26: once a rebuild has returned, the cache is the one a single rebuild
\* leaves, one 128-long descriptor for each active user and nothing else,
\* whatever other rebuilds ran before it or are still running
C26_RebuildIdempotent ==
  \A r \in Loaders :
    (reqs[r].pc = "done" /\ reqs[r].loaded) =>
      faceDescriptors = loadAndCacheFaceDescriptors

\* two requests both found the cache empty and both rebuilt it for two
\* active users
C26_Witness ==
  /\ \A r \in Loaders : reqs[r].pc = "done" /\ reqs[r].loaded
  /\ DOMAIN faceDescriptors = Users

\* C27: every cached descriptor has length 128
C27_CachedDescriptorsAre128 ==
  \A u \in DOMAIN faceDescriptors : faceDescriptors[u] = DESCRIPTOR_LENGTH

\* C28: no step of the attendance service removes a persisted event or
\* changes a field of one: the events persisted before the step are, in
\* their order and unchanged, the first events after it
C28_EventsAppendOnly ==
  [][/\ Len(attendance') >= Len(attendance)
     /\ \A i \in 1..Len(attendance) : attendance'[i] = attendance[i]]_vars

\* the last entry of a log
LastEntry(log) == log[Len(log)]

\* C29: a correction appends exactly one entry to the record's corrections
\* log, holding the times and the duration of the record before the change
\* and after it; and no step removes or changes an earlier entry of a log
C29_CorrectionsLogged ==
  [][/\ \A i \in 1..Len(attendance) :
          \A checkInTime \in CheckInTimes : \A checkOutTime \in CheckOutTimes :
            \A note \in {"undefined", "fixed"} :
              correctAttendance(i, checkInTime, checkOutTime, note) =>
                /\ Len(attendance'[i].corrections) =
                     Len(attendance[i].corrections) + 1
                /\ LastEntry(attendance'[i].corrections).originalData =
                     correctionData(attendance[i])
                /\ LastEntry(attendance'[i].corrections).newData =
                     correctionData(attendance'[i])
     /\ \A i \in 1..Len(attendance) :
          /\ i <= Len(attendance')
          /\ Len(attendance'[i].corrections) >= Len(attendance[i].corrections)
          /\ \A k \in 1..Len(attendance[i].corrections) :
               attendance'[i].corrections[k] = attendance[i].corrections[k]
          /\ (\/ attendance'[i].checkInTime # attendance[i].checkInTime
              \/ (/\ attendance[i].checkOutTime # 0
                  /\ attendance'[i].checkOutTime # attendance[i].checkOutTime))
             => Len(attendance'[i].corrections) >
                  Len(attendance[i].corrections)]_vars

\* a record was corrected twice: the first correction changed its check-in
\* time, the second its check-out time, and the second logged as original
\* the values the first one had set
C29_Witness ==
  /\ result.op = "correctAttendance"
  /\ \E i \in 1..Len(attendance) :
       LET log == attendance[i].corrections IN
       /\ Len(log) = 2
       /\ log[2].originalData = log[1].newData
       /\ log[1].originalData.checkInTime # log[1].newData.checkInTime
       /\ log[2].originalData.checkOutTime # log[2].newData.checkOutTime

\* the reference: with a marker present the opposite of its lastType;
\* otherwise the opposite of the type of the person's most recent event if
\* that event is of today (any of them when several share the greatest
\* timestamp); otherwise ENTRY
ReferenceTypes(userId) ==
  LET mine == {i \in 1..Len(attendance) : attendance[i].userId = userId}
      latest == {i \in mine : \A j \in mine :
                   attendance[j].timestamp <= attendance[i].timestamp}
      today == {i \in latest :
                  DayOf(attendance[i].timestamp) = DayOf(clock)}
  IN IF recent[userId] # NoMarker /\ clock < recent[userId].expiresAt
     THEN {Opposite(recent[userId].lastType)}
     ELSE IF today = {} THEN {"ENTRY"}
     ELSE {Opposite(attendance[i].type) : i \in today}

\* C30: determineAttendanceType answers what the reference answers, in
\* every state and for every person, and a check-in records an event of
\* that type
C30_TypeEqualsReference ==
  [][\A u \in Users :
       /\ {determineAttendanceType(u, last) : last \in LastChoices(u)} =
            ReferenceTypes(u)
       /\ (userActive[u] /\ processAttendance(u)) =>
            /\ Len(attendance') = Len(attendance) + 1
            /\ attendance'[Len(attendance')].type \in ReferenceTypes(u)]_vars

\* a person whose last event is an ENTRY of an earlier day, and whose
\* marker has expired, checked in and was recorded as ENTRY again
C30_Witness ==
  /\ result.op = "processAttendance"
  /\ result.ok
  /\ result.type = "ENTRY"
  /\ \E i \in 1..Len(attendance) :
       /\ i > 1
       /\ attendance[i].userId = result.user
       /\ attendance[i].timestamp = clock
       /\ attendance[i].type = "ENTRY"
       /\ attendance[i - 1].userId = result.user
       /\ attendance[i - 1].type = "ENTRY"
       /\ DayOf(attendance[i - 1].timestamp) < DayOf(clock)


\* C31: the person findMatchingUser returns is active and at the distance of
\* the probe to that person, no active person of the gallery is nearer to
\* the probe, and somebody is returned whenever an active person lies
\* within the threshold, whatever deactivated persons lie nearer; the
\* check-in built on the match records the event for such a person
C31_NearestActiveReturned ==
  [][\A probe \in Probes :
       ~lengthMismatch(cachedDescriptors) =>
         /\ \A m \in findMatchingUser(probe) :
              m # NoMatch =>
                /\ m.userId \in DOMAIN cachedDescriptors
                /\ userActive[m.userId]
                /\ m.distance = probe[m.userId]
                /\ m.distance < FACE_DISTANCE_THRESHOLD
                /\ \A v \in DOMAIN cachedDescriptors :
                     userActive[v] => m.distance <= probe[v]
         /\ (\E v \in DOMAIN cachedDescriptors :
               userActive[v] /\ probe[v] < FACE_DISTANCE_THRESHOLD)
            => NoMatch \notin findMatchingUser(probe)
         /\ (processAttendanceCheckByFace(probe) /\ result'.ok) =>
              \A v \in DOMAIN cachedDescriptors :
                userActive[v] => probe[result'.user] <= probe[v]]_vars

\* a check-in was recorded for the nearer of two active persons who both
\* lay within the threshold of the probe, at different distances
C31_Witness ==
  /\ result.op = "processAttendanceCheck"
  /\ result.ok
  /\ result.probe \in Probes
  /\ \A u \in Users : u \in DOMAIN faceDescriptors /\ userActive[u]
  /\ \E v \in Users :
       /\ v # result.user
       /\ result.probe[result.user] < result.probe[v]
       /\ result.probe[v] < FACE_DISTANCE_THRESHOLD
  /\ result.confidence = 10 - result.probe[result.user]


\* C32: a refreshToken call returns a token only if a durable row carries
\* the token's new sessionId at that moment, and never for an old token
\* that another refreshToken call has already returned a token for
C32_RefreshOnlyIfMoved ==
  [][\A p \in Procs :
       RefreshSet(p) =>
         /\ \E s \in sessions : s.sessionId = procs[p].newSid
         /\ \A q \in Procs \ {p} :
              ~(procs[q].pc = "done" /\ procs[q].old = procs[p].old)]_vars


\* the Session rows the presented token belongs to: the row created by the
\* login that issued it, or the row that holds its access token
sessionsOfPresented(token) ==
  {s \in sessions :
     s.rid = token.sessionId \/ s.token.sessionId = token.sessionId}

\* C33: a refreshToken call changes no Session row other than the one the
\* presented token belongs to, and every token of another session that
\* validateSession accepted before the call is accepted after it
C33_RefreshLeavesOtherSessions ==
  [][\A t \in tokens :
       refreshToken1(t) =>
         /\ \A s \in sessions \ sessionsOfPresented(t) : s \in sessions'
         /\ \A other \in tokens :
              (/\ other.sessionId # t.sessionId
               /\ verifyToken(other)
               /\ sessionOfToken(other) # {})
              => sessionOfToken(other)' # {}]_vars


\* C34: logoutAllSessions(u) changes no Session row of another user, and
\* every token of another user that getSessionInfo accepted before the call
\* (through the cache or through the Session row) is accepted after it
C34_LogoutAllTouchesOneUser ==
  [][\A u \in Users :
       logoutAllSessions1(u) =>
         /\ \A s \in sessions : s.userId # u => s \in sessions'
         /\ \A t \in tokens :
              (t.userId # u /\ getSessionInfoOk(t)) => getSessionInfoOk(t)']_vars


\* C35: a validateToken call for a token whose user is not an active user
\* answers not valid, whether the projection is cached or only the durable
\* row exists and whether the cache can be read and written or not, and
\* leaves the session cache as it was
C35_InactiveUserNeverValid ==
  [][\A t \in tokens : \A readOk, writeOk \in BOOLEAN :
       (~userActive[t.userId] /\ validateTokenIO(t, readOk, writeOk)) =>
         /\ ~result'.ok
         /\ sessionCache' = sessionCache]_vars

\* validateToken rejected an unexpired token of a deactivated user whose
\* session is cached and whose durable row is active
C35_Witness ==
  /\ result.op = "validateToken"
  /\ ~result.ok
  /\ jwtVerify(result.token)
  /\ ~userActive[result.token.userId]
  /\ getUserSession(result.token.sessionId) # NoEntry
  /\ findActiveSession(result.token.sessionId) # {}


\* the last event added by a step
Persisted == attendance'[Len(attendance')]

\* the answer of the durable history alone: the opposite of the person's
\* most recent event if it is of today, ENTRY otherwise
HistoryTypes(userId) ==
  {IF last # 0 /\ DayOf(attendance[last].timestamp) = DayOf(clock)
   THEN Opposite(attendance[last].type) ELSE "ENTRY" :
     last \in LastChoices(userId)}

\* C36 as stated: whenever a read of determineAttendanceType that was tried
\* fails (the marker's, or the history's after no marker was found),
\* processAttendance persists an ENTRY event
C36_ReadFailureGivesEntry ==
  [][\A u \in Users : \A getOk, findOk \in BOOLEAN :
       (/\ readsFailed(u, getOk, findOk) # "none"
        /\ userActive[u]
        /\ processAttendanceRead(u, getOk, findOk))
       => /\ result'.ok
          /\ Len(attendance') = Len(attendance) + 1
          /\ Persisted.type = "ENTRY"]_vars

\* C36, amended: no failed read of determineAttendanceType is propagated,
\* processAttendance persists an event in every case; a failed read of the
\* history gives ENTRY whatever the person's last event of today, while a
\* failed read of the marker is taken as no marker, and the history decides
C36_ReadFailureFallsBack ==
  [][\A u \in Users : \A getOk, findOk \in BOOLEAN :
       (userActive[u] /\ processAttendanceRead(u, getOk, findOk)) =>
         /\ result'.ok
         /\ Len(attendance') = Len(attendance) + 1
         /\ Persisted.userId = u
         /\ Persisted.type = result'.type
         /\ readsFailed(u, getOk, findOk) \in {"find_failed", "get_find_failed"}
            => Persisted.type = "ENTRY"
         /\ readsFailed(u, getOk, findOk) = "get_failed"
            => Persisted.type \in HistoryTypes(u)]_vars

\* the read of the marker failed for a person whose last event of today is
\* an ENTRY, and an EXIT was recorded
C36_Witness ==
  /\ result.op = "processAttendance"
  /\ result.ok
  /\ result.msg = "get_failed"
  /\ result.type = "EXIT"
  /\ \E i \in 1..Len(attendance) :
       /\ i > 1
       /\ attendance[i].userId = result.user
       /\ attendance[i].type = "EXIT"
       /\ attendance[i - 1].userId = result.user
       /\ attendance[i - 1].type = "ENTRY"
       /\ DayOf(attendance[i - 1].timestamp) = DayOf(clock)


\* the open records of a user for the current day: checkInTime set,
\* checkOutTime not set
openRecords(userId) ==
  {i \in getTodaysAttendance(userId) : attendance[i].checkOutTime = 0}

\* C37: under every interleaving of /checkin and /checkout requests a user
\* has at most one open record for the current day, and a /checkout closes
\* a record only if it is open when it is saved
C37_AtMostOneOpenRecord ==
  [][/\ \A u \in Users : Cardinality(openRecords(u)') <= 1
     /\ \A r \in 1..Len(reqs) :
          CheckoutSave(r) => attendance[reqs[r].seen].checkOutTime = 0]_vars


\* C38: every record with both a check-in and a check-out time has the
\* check-out no earlier than the check-in and, as workDuration, the number
\* of seconds between the two, never a negative one
C38_DurationConsistent ==
  \A i \in 1..Len(attendance) :
    (attendance[i].checkInTime # 0 /\ attendance[i].checkOutTime # 0) =>
      /\ attendance[i].checkOutTime >= attendance[i].checkInTime
      /\ attendance[i].workDuration >= 0
      /\ attendance[i].workDuration * 1000 =
           attendance[i].checkOutTime - attendance[i].checkInTime

====
